---- MODULE Spec2Model ----
(***************************************************************************)
(* Verification model of the agent session engine of the Neusis Code VS    *)
(* Code extension: the two subprocess supervisors (ClaudeProcess with its  *)
(* host NeusisChatViewProvider, and ClaudeCodeManager with its host        *)
(* ClaudeCodeViewProvider), the NDJSON line framer, and the streaming      *)
(* transcript reconstructor of the webview.                                *)
(***************************************************************************)
EXTENDS Integers, Sequences, FiniteSets, TLC

(***************************************************************************)
(* Bounds of the model.                                                    *)
(***************************************************************************)
\* subprocesses one ClaudeProcess may spawn in a run
MaxSpawn == 2
\* stdout chunks delivered to one ClaudeProcess in a run
MaxChunks == 1
\* sends of the host that wait for their subprocess: pending 500 ms timers
\* and pending startProcess calls
MaxTimers == 1
\* messages the user sends through the chat view in a run
MaxMsgs == 2
\* subprocesses one ClaudeCodeManager may spawn in a run
MaxSpawnM == 2
\* stdout chunks delivered to one ClaudeCodeManager in a run
MaxChunksM == 2
\* bytes of the stdout stream fed to the line framers
MaxStream == 5
\* prompts the user sends and events that reach a handler of the provider
\* or the webview, in a run
MaxEvents == 6
\* tool_use blocks (tool ids) of a run
MaxTools == 2
\* input_json_delta fragments of one tool_use block
MaxPieces == 3
\* events of one turn that are outside the order of a reply
MaxOdd == 1
\* hook processes the CLI starts
MaxHooks == 2
\* hook processes with an input or a connection that goes wrong, and POSTs
\* to the gateway that do not come from a hook
MaxFaults == 1
\* Edit and Write invocations the CLI announces
MaxEdits == 2
\* events the CLI may be ahead of the extension host
MaxQueue == 2
\* lines of a file handed to computeDiff
MaxLines == 4

VARIABLES
  \* ---- ClaudeProcess (src/src/claude-process.ts) ----
  proc,        \* this.proc: 0 is null, otherwise the child it references
  buffer,      \* this.buffer: the unterminated tail of stdout
  sessionId,   \* this._sessionId
  isRunning,   \* this._isRunning
  child,       \* the ChildProcess objects spawn() has returned so far
  nSpawned,    \* how many of them
  nChunks,     \* how many stdout chunks they have delivered
  \* ---- NeusisChatViewProvider (src/src/webview-provider.ts) ----
  mode,        \* configuration value neusis-code.permissionMode
  timers,      \* pending setTimeout(sendMessage, 500) callbacks, oldest
               \* first: the message each one holds
  setups,      \* startProcess calls that await ensureApprovalSetup, oldest
               \* first: the message each one is for
  uiState,     \* the last stateChange posted to the webview
  \* ---- observations of the run (history variables) ----
  att,         \* per session attempt: terminal events, host report, init id
  lastSend,    \* the most recent sendMessage: its outcome, the record written
  userMsgs,    \* per message of the user: what became of it
  owed,        \* JSON records read from stdout and not emitted as events
  \* ---- ClaudeCodeManager (src/src/claudeCode.ts) ----
  _process,           \* this._process: 0 is null
  _currentSessionId,  \* this._currentSessionId: 0 is null
  mChild,             \* the children of sendPrompt with their closure state
  mSpawned,           \* how many of them
  mChunks,            \* how many stdout chunks they have delivered
  \* ---- ClaudeCodeViewProvider (src/src/ClaudeCodeViewProvider.ts) ----
  _conversationId,    \* this._conversationId: 0 is null
  _currentAssistantText, \* this._currentAssistantText as the handlers of the
                      \* children write it: the pieces, each with the child
                      \* whose event it came from
  _messages,          \* the assistant messages of this._messages: of each
                      \* its pieces and the child whose completion appended
                      \* it
  \* ---- observations of the run (history variables) ----
  mAtt,               \* per session attempt: onDone, onError, exit code
  mLastSend,          \* the most recent respond/respondToTool
  \* ---- the line framers of both supervisors, fed one byte stream ----
  fRest,       \* the bytes of the stream not yet read
  fFed,        \* the bytes read so far
  fText,       \* the strings the chunks read so far decoded to, concatenated
  fBuf,        \* this.buffer of ClaudeProcess
  fOut,        \* the messages ClaudeProcess has routed
  fBufM,       \* stdoutBuffer of ClaudeCodeManager
  fOutM,       \* the events ClaudeCodeManager has handed to onEvent
  \* ---- ClaudeCodeView (ClaudeCodeView.tsx), the webview ----
  vMessages,    \* the React state messages
  vTextBuf,     \* streamTextBufferRef.current
  vToolBufs,    \* toolInputBuffersRef.current: tool id -> buffered input
  vToolIndex,   \* currentToolIndexRef.current: -1 is null
  vIsStreaming, \* the React state isStreaming
  \* ---- ClaudeCodeViewProvider's mirror of the transcript ----
  tText,        \* this._currentAssistantText
  tTools,       \* this._currentToolBlocks, in insertion order
  tMessages,    \* this._messages
  \* ---- the event stream of the CLI turn ----
  sOpen,        \* the content block being streamed
  sIdx,         \* the index of the next content block of the API message
  sDone,        \* the completed content blocks of the API message
  sPending,     \* ids of the turn's tool_use blocks without a tool_result
  sAhead,       \* ids an assistant event has named before their stream events
  sProc,        \* the CLI child of the turn: "none", "running" or "killed"
  sTurn,        \* what the turn has delivered so far (see NoTurn)
  nEvents,      \* how many prompts and handled events the run has had
  nTools,       \* how many tool ids the run has used
  nSends,       \* how many prompts the user has sent
  \* ---- observations of the run (history variables) ----
  vLast,        \* the kind of the event handled last
  vGot,         \* ids of the webview's tool blocks a tool_result has reached
  tGot,         \* ids of the provider's tool blocks a tool_result has reached
  \* ---- the approval gateway (types.ts, webview-provider.ts) ----
  approvalServer,   \* this.approvalServer: FALSE is null, TRUE a server
                    \* listening on the port it was given
  hookScript,       \* approval-hook.js exists and holds that server's port
  pendingApprovals, \* the keys of this.pendingApprovals
  approvalCounter,  \* this.approvalCounter
  req,              \* per request id: the promise of its decision
  hook,             \* the hook processes the CLI has started
  gRun,             \* claudeProcess.isRunning of an askFirst session
  foreign,          \* the POSTs another local process has sent the gateway,
                    \* each with the gateway's answer
  \* ---- ChangeTracker (src/src/claudeCode.ts) and the files it watches ----
  disk,             \* per path: the file's content, or Missing
  edits,            \* the Edit/Write invocations of the CLI, by tool_use id
  stdoutQ,          \* events the CLI has written that no listener has seen
  pendingEdits,     \* this.pendingEdits
  trackedFiles,     \* this.trackedFiles, in insertion order
  shown,            \* what the last step showed with showErrorMessage
  wrote,            \* how fs.writeFileSync ended in the last step, "none"
                    \* when that step did not call it
  again,            \* the last step was the 'user' listener on a
                    \* tool_use_id it had handled before
  firstSnap,        \* per path: what the first snapshotFile call read
  \* ---- one call of ChangeTracker.computeDiff ----
  dBefore,          \* its argument beforeLines
  dAfter,           \* its argument afterLines
  dOut              \* what the call has returned: <<>> before it, then
                    \* the one result

procVars == <<proc, buffer, sessionId, isRunning, child, nSpawned, nChunks,
              mode, timers, setups, uiState, att, lastSend, userMsgs, owed>>

mgrVars == <<_process, _currentSessionId, mChild, mSpawned, mChunks,
             _conversationId, _currentAssistantText, _messages, mAtt,
             mLastSend>>

frmVars == <<fRest, fFed, fText, fBuf, fOut, fBufM, fOutM>>

viewVars == <<vMessages, vTextBuf, vToolBufs, vToolIndex, vIsStreaming,
              tText, tTools, tMessages, sOpen, sIdx, sDone, sPending, nEvents,
              nTools, nSends, vLast, vGot, tGot, sAhead, sProc, sTurn>>

gateVars == <<approvalServer, hookScript, pendingApprovals,
              approvalCounter, req, hook, gRun, foreign>>

trackVars == <<disk, edits, stdoutQ, pendingEdits, trackedFiles, shown,
               wrote, again, firstSnap>>

diffVars == <<dBefore, dAfter, dOut>>

vars == <<procVars, mgrVars, frmVars, viewVars, gateVars, trackVars,
          diffVars>>

\* what the actions of one component leave alone
nonProcVars == <<mgrVars, frmVars, viewVars, gateVars, trackVars,
                 diffVars>>
nonMgrVars == <<procVars, frmVars, viewVars, gateVars, trackVars,
                 diffVars>>
nonFrmVars == <<procVars, mgrVars, viewVars, gateVars, trackVars,
                 diffVars>>
nonViewVars == <<procVars, mgrVars, frmVars, gateVars, trackVars,
                 diffVars>>
nonGateVars == <<procVars, mgrVars, frmVars, viewVars, trackVars,
                 diffVars>>
nonTrackVars == <<procVars, mgrVars, frmVars, viewVars, gateVars,
                 diffVars>>
nonDiffVars == <<procVars, mgrVars, frmVars, viewVars, gateVars, trackVars>>

(***************************************************************************)
(* Values.                                                                 *)
(***************************************************************************)
Children == 1..MaxSpawn

\* the sentinel 'default' of this._sessionId; the session id that child p
\* announces in its system/init message is p
SessionSentinel == 0

PermissionModes == {"askFirst", "autoEdit", "planFirst"}

\* exit codes as the host's exit listener distinguishes them
ExitCodes == {"zero", "nonzero", "null"}

\* One stdout token is a pair <<kind, session id>>.  A token is a whole
\* ASCII JSON text (kinds init, assistant, user, stream, result), or one
\* character or byte of a line: the ASCII head (lb) and end (rb) of a JSON
\* text that holds text content, a blank (sp), the newline (nl), the two
\* bytes (c3, a9) of a two-byte UTF-8 character, that character once decoded
\* (e9) and the replacement character U+FFFD (fffd).
Tok(k) == <<k, SessionSentinel>>
InitTok(p) == <<"init", p>>
NL == Tok("nl")
JsonKinds == {"init", "assistant", "user", "stream", "result"}

\* the chunks child p may deliver: whole lines, an unterminated record and
\* the newline that completes it
ChunksOf(p) ==
  { <<InitTok(p), NL>>, <<Tok("stream"), NL>>, <<Tok("result"), NL>>,
    <<Tok("result")>>, <<NL>> }

NoChild == [st |-> "unborn", killed |-> FALSE]
\* what a run shows of one session attempt: the terminal events emitted,
\* whether an event followed them, whether the exit code was neither 0 nor
\* null, what the host's exit listener reported, the last init id received
NoArgs == [permissionMode |-> "none", settings |-> FALSE]
NoAttempt == [exit |-> 0, error |-> 0, late |-> FALSE, nonzero |-> FALSE,
              report |-> "none", initSid |-> SessionSentinel,
              args |-> NoArgs]
\* what a run shows of one send: whether the attached stdin was writable,
\* the outcome, the session id written and the attempt's own id
NoSend == [writable |-> FALSE, outcome |-> "none", sid |-> SessionSentinel,
           expect |-> SessionSentinel]
\* what a run shows of one message of the user: where it is (none: not yet
\* sent, setup: its startProcess awaits, timer: its 500 ms timer runs,
\* written, reported: an 'error' event was broadcast, failed: startProcess
\* rejected and showErrorMessage ran), whether a mode change had stopped a
\* subprocess since the message before it and, for such a message, the
\* configured mode when it was sent, the child start() spawned for it and
\* the child it was written to
NoMsg == [st |-> "none", sel |-> "none", first |-> FALSE, started |-> 0,
          to |-> 0]

(***************************************************************************)
(* Line framing of handleStdout: split on the newline, trim each line.     *)
(***************************************************************************)
\* String.prototype.split('\n') on a token sequence: the segments between
\* newlines, the last one being the unterminated tail.
RECURSIVE SplitNL(_)
SplitNL(s) ==
  IF \A i \in 1..Len(s) : s[i] # NL
  THEN <<s>>
  ELSE LET k == CHOOSE i \in 1..Len(s) :
                  s[i] = NL /\ \A j \in 1..(i - 1) : s[j] # NL
       IN  <<SubSeq(s, 1, k - 1)>> \o SplitNL(SubSeq(s, k + 1, Len(s)))

\* String.prototype.trim(): leading and trailing blanks removed.
RECURSIVE TrimLine(_)
TrimLine(l) ==
  IF l = <<>> THEN l
  ELSE IF Head(l) = Tok("sp") THEN TrimLine(Tail(l))
  ELSE IF l[Len(l)] = Tok("sp") THEN TrimLine(SubSeq(l, 1, Len(l) - 1))
  ELSE l

\* Buffer.prototype.toString('utf-8') of one chunk: a complete two-byte
\* sequence decodes to its character; a lead byte that the chunk does not
\* continue, and a continuation byte that follows no lead byte, each decode
\* to U+FFFD; ASCII is unchanged.
RECURSIVE ToStringUtf8(_)
ToStringUtf8(bytes) ==
  IF bytes = <<>> THEN <<>>
  ELSE IF Head(bytes) = Tok("c3")
  THEN IF Len(bytes) >= 2 /\ bytes[2] = Tok("a9")
       THEN <<Tok("e9")>> \o ToStringUtf8(SubSeq(bytes, 3, Len(bytes)))
       ELSE <<Tok("fffd")>> \o ToStringUtf8(Tail(bytes))
  ELSE IF Head(bytes) = Tok("a9")
  THEN <<Tok("fffd")>> \o ToStringUtf8(Tail(bytes))
  ELSE <<Head(bytes)>> \o ToStringUtf8(Tail(bytes))

\* JSON.parse succeeds: the line is exactly one whole JSON text, or a head,
\* characters of text content and an end
ParseOk(l) ==
  \/ Len(l) = 1 /\ l[1][1] \in JsonKinds
  \/ /\ Len(l) >= 2
     /\ l[1] = Tok("lb")
     /\ l[Len(l)] = Tok("rb")
     /\ \A i \in 2..(Len(l) - 1) : l[i] \in {Tok("e9"), Tok("fffd")}

\* JSON.parse of a valid line: the message's type, its session_id and its
\* text; a text that holds content is an assistant message
JsonParse(l) ==
  [type |-> IF Len(l) = 1 THEN l[1][1] ELSE "assistant",
   session_id |-> IF Len(l) = 1 THEN l[1][2] ELSE SessionSentinel,
   text |-> l]

\* the event ClaudeProcess.routeMessage emits for a message of type t
EventOf(t) ==
  CASE t = "init" -> "system"
    [] t = "stream" -> "streamEvent"
    [] OTHER -> t

\* the host's listener of setupProcessListeners for one event: the state
\* it broadcasts (ui is the state broadcast last)
ListenerState(ev, ui) ==
  CASE ev = "streamEvent" -> "streaming"
    [] ev = "result" -> "idle"
    [] ev = "error" -> "error"
    [] OTHER -> ui

\* routeMessage for one parsed message, on the running state r of the loop
RouteMessage(msg, r) ==
  [r EXCEPT !.sid = IF msg.type = "init" /\ msg.session_id # SessionSentinel
                    THEN msg.session_id ELSE @,
            !.ui = ListenerState(EventOf(msg.type), @),
            !.events = Append(@, [ev |-> EventOf(msg.type), msg |-> msg.text])]

\* the loop body of handleStdout for one completed line
HandleLine(line, r) ==
  LET trimmed == TrimLine(line)
  IN  IF trimmed = <<>> THEN r
      ELSE IF ParseOk(trimmed) THEN RouteMessage(JsonParse(trimmed), r)
      ELSE r

\* the loop of handleStdout with the try/catch around the loop instead of
\* inside it: the first non-JSON line ends the loop
RECURSIVE HandleLinesCatchOutside(_, _)
HandleLinesCatchOutside(lines, r) ==
  IF lines = <<>> THEN r
  ELSE LET trimmed == TrimLine(Head(lines))
       IN  IF trimmed # <<>> /\ ~ParseOk(trimmed) THEN r
           ELSE HandleLinesCatchOutside(Tail(lines), HandleLine(Head(lines), r))

\* the loop of handleStdout over the completed lines
RECURSIVE HandleLines(_, _)
HandleLines(lines, r) ==
  IF lines = <<>> THEN r
  ELSE HandleLines(Tail(lines), HandleLine(Head(lines), r))

\* handleStdout(data) on buffer buf: the new buffer and the loop's result
HandleStdout(buf, data, sid, ui) ==
  LET lines == SplitNL(buf \o data)
      r == HandleLines(SubSeq(lines, 1, Len(lines) - 1),
                       [sid |-> sid, ui |-> ui, events |-> <<>>])
  IN  [buffer |-> lines[Len(lines)], sid |-> r.sid, ui |-> r.ui,
       events |-> r.events]

\* the attempt's terminal event (exit or error) has been emitted
Terminated(a) == a.exit + a.error > 0

(***************************************************************************)
(* ClaudeProcess operations, as effects on the state.                      *)
(***************************************************************************)
\* stop(): the children after this.proc.kill('SIGTERM')
StopChildren(ch, pr) ==
  IF pr # 0 /\ ch[pr].st = "live" THEN [ch EXCEPT ![pr].killed = TRUE] ELSE ch

\* the stdin pipe of child pr accepts writes: the child runs
StdinOpen(ch, pr) == pr # 0 /\ ch[pr].st = "live"

\* this.proc?.stdin?.writable
StdinWritable(ch, pr) == pr # 0 /\ StdinOpen(ch, pr)

\* the arguments startProcess(cwd, mode) gives start() for the configured
\* mode: the value of --permission-mode and whether --settings is passed
StartArgs(m) ==
  CASE m = "planFirst" -> [permissionMode |-> "plan", settings |-> FALSE]
    [] m = "autoEdit" ->
         [permissionMode |-> "bypassPermissions", settings |-> FALSE]
    [] m = "askFirst" ->
         [permissionMode |-> "bypassPermissions", settings |-> TRUE]
    [] OTHER -> [permissionMode |-> "bypassPermissions", settings |-> FALSE]

\* start(cwd, permissionMode, settingsPath), called for message n: stop the
\* attached child, reset, spawn.  ok is whether spawn succeeds; a failed
\* spawn emits 'error' before any other callback runs.  The arguments are
\* kept for an attempt started for a marked message.
Start(ok, args, n) ==
  LET p == nSpawned + 1
  IN  /\ nSpawned < MaxSpawn
      /\ nSpawned' = p
      /\ buffer' = <<>>
      /\ sessionId' = SessionSentinel
      /\ proc' = p
      /\ isRunning' = ok
      /\ child' = [StopChildren(child, proc) EXCEPT
                     ![p].st = IF ok THEN "live" ELSE "failed"]
      /\ att' = [att EXCEPT ![p].error = IF ok THEN 0 ELSE 1,
                            ![p].args = IF userMsgs[n].first THEN args
                                        ELSE NoArgs]

\* sendMessage(text); ui is the state the host has broadcast before it
SendMessage(ui) ==
  IF StdinWritable(child, proc)
  THEN /\ lastSend' = [writable |-> StdinOpen(child, proc),
                       outcome |-> "written", sid |-> sessionId,
                       expect |-> att[proc].initSid]
       /\ uiState' = ui
  ELSE /\ lastSend' = [NoSend EXCEPT !.writable = StdinOpen(child, proc),
                                     !.outcome = "reported"]
       /\ uiState' = ListenerState("error", ui)

\* sendMessage(text) that returns without the 'error' event when stdin is
\* not writable
SentOrDropped(ms, n) ==
  IF StdinWritable(child, proc)
  THEN [ms EXCEPT ![n].st = "written",
                  ![n].to = IF ms[n].first THEN proc ELSE 0]
  ELSE ms

\* what sendMessage(text) makes of message n of the user
Sent(ms, n) ==
  IF StdinWritable(child, proc)
  THEN [ms EXCEPT ![n].st = "written",
                  ![n].to = IF ms[n].first THEN proc ELSE 0]
  ELSE [ms EXCEPT ![n].st = "reported"]

\* the message the user sends next: 0 when the run has had MaxMsgs
NextMsg ==
  IF \E n \in 1..MaxMsgs : userMsgs[n].st = "none"
  THEN CHOOSE n \in 1..MaxMsgs :
         userMsgs[n].st = "none" /\ \A k \in 1..(n - 1) : userMsgs[k].st # "none"
  ELSE 0

(***************************************************************************)
(* Host handlers of NeusisChatViewProvider.                                *)
(***************************************************************************)
\* handleSendMessage(text) with a non-blank text and an open workspace.
\* startProcess is an async function: for planFirst and autoEdit it calls
\* start() before it returns and the then-callback runs in the same turn of
\* the event loop; for askFirst it first awaits ensureApprovalSetup.
HandleSendMessage ==
  /\ NextMsg # 0
  /\ LET n == NextMsg
         ms == [userMsgs EXCEPT
                  ![n].sel = IF userMsgs[n].first THEN mode ELSE "none"]
     IN  IF ~isRunning
         THEN /\ Len(setups) + Len(timers) < MaxTimers
              /\ nSpawned < MaxSpawn
              /\ IF mode = "askFirst"
                 THEN /\ setups' = Append(setups, n)
                      /\ userMsgs' = [ms EXCEPT ![n].st = "setup"]
                      /\ UNCHANGED <<proc, buffer, sessionId, isRunning,
                                     child, nSpawned, timers, uiState, att>>
                 ELSE /\ \E ok \in BOOLEAN : Start(ok, StartArgs(mode), n)
                      /\ uiState' = "waiting"
                      /\ timers' = Append(timers, n)
                      /\ userMsgs' =
                           [ms EXCEPT ![n].st = "timer",
                                      ![n].started = IF ms[n].first
                                                     THEN nSpawned + 1 ELSE 0]
                      /\ UNCHANGED setups
              /\ UNCHANGED <<nChunks, mode, lastSend, owed>>
         ELSE /\ SendMessage("waiting")
              /\ userMsgs' = Sent(ms, n)
              /\ UNCHANGED <<proc, buffer, sessionId, isRunning, child,
                             nSpawned, nChunks, mode, timers, setups, att,
                             owed>>
  /\ UNCHANGED nonProcVars

\* the rest of startProcess(cwd, 'askFirst') once ensureApprovalSetup has
\* settled, with the then- and catch-callbacks of handleSendMessage:
\* ensureApprovalSetup rejects (the server cannot listen, a hook file cannot
\* be written) and showErrorMessage runs, or start() is called with the
\* settings path
StartProcessAskFirst ==
  /\ setups # <<>>
  /\ LET n == Head(setups)
     IN  /\ setups' = Tail(setups)
         /\ \/ /\ userMsgs' = [userMsgs EXCEPT ![n].st = "failed"]
               /\ UNCHANGED <<proc, buffer, sessionId, isRunning, child,
                              nSpawned, timers, uiState, att>>
            \/ /\ \E ok \in BOOLEAN : Start(ok, StartArgs("askFirst"), n)
               /\ uiState' = "waiting"
               /\ timers' = Append(timers, n)
               /\ userMsgs' =
                    [userMsgs EXCEPT ![n].st = "timer",
                                     ![n].started = IF userMsgs[n].first
                                                    THEN nSpawned + 1 ELSE 0]
  /\ UNCHANGED <<nChunks, mode, lastSend, owed>>
  /\ UNCHANGED nonProcVars

\* the setTimeout callback of handleSendMessage
SendTimer ==
  /\ timers # <<>>
  /\ timers' = Tail(timers)
  /\ SendMessage(uiState)
  /\ userMsgs' = Sent(userMsgs, Head(timers))
  /\ UNCHANGED <<proc, buffer, sessionId, isRunning, child, nSpawned, nChunks,
                 mode, setups, att, owed>>
  /\ UNCHANGED nonProcVars

\* stop() followed by the 'idle' broadcast
StopAndIdle ==
  /\ child' = StopChildren(child, proc)
  /\ proc' = 0
  /\ isRunning' = IF proc # 0 THEN FALSE ELSE isRunning
  /\ uiState' = "idle"

StopGeneration ==
  /\ StopAndIdle
  /\ UNCHANGED <<buffer, sessionId, nSpawned, nChunks, mode, timers, setups,
                 att, lastSend, userMsgs, owed>>
  /\ UNCHANGED nonProcVars

NewChat ==
  /\ StopAndIdle
  /\ UNCHANGED <<buffer, sessionId, nSpawned, nChunks, mode, timers, setups,
                 att, lastSend, userMsgs, owed>>
  /\ UNCHANGED nonProcVars

\* handleModeChange(m); the webview posts modeChange when the selection of
\* its dropdown changes.  The message sent next is marked when the handler
\* stops a subprocess.
HandleModeChange ==
  \E m \in PermissionModes \ {mode} :
    /\ mode' = m
    /\ IF isRunning
       THEN /\ StopAndIdle
            /\ userMsgs' = IF NextMsg # 0
                       THEN [userMsgs EXCEPT ![NextMsg].first = TRUE]
                       ELSE userMsgs
       ELSE UNCHANGED <<child, proc, isRunning, uiState, userMsgs>>
    /\ UNCHANGED <<buffer, sessionId, nSpawned, nChunks, timers, setups, att,
                   lastSend, owed>>
    /\ UNCHANGED nonProcVars

(***************************************************************************)
(* Callbacks of a subprocess.                                              *)
(***************************************************************************)
\* the whole JSON texts among the tokens of a chunk
RecordsIn(chunk) ==
  Cardinality({i \in 1..Len(chunk) : chunk[i][1] \in JsonKinds})

\* stdout 'data' of child p: handleStdout(chunk).  Data still arrives after
\* 'exit': Node closes the stdio streams of a child after it emits 'exit'.
ChildStdout ==
  \E p \in Children :
    \E chunk \in ChunksOf(p) :
      /\ child[p].st \in {"live", "exited"}
      /\ nChunks < MaxChunks
      /\ nChunks' = nChunks + 1
      /\ LET h == HandleStdout(buffer, ToStringUtf8(chunk), sessionId, uiState)
         IN  /\ buffer' = h.buffer
             /\ sessionId' = h.sid
             /\ uiState' = h.ui
             /\ owed' = owed + RecordsIn(chunk) - Len(h.events)
             /\ att' = [att EXCEPT
                          ![p].late = @ \/ (Terminated(att[p]) /\ h.events # <<>>),
                          ![p].initSid = IF \E i \in 1..Len(h.events) :
                                              h.events[i].ev = "system"
                                         THEN p ELSE @]
      /\ UNCHANGED <<proc, isRunning, child, nSpawned, mode, timers, setups,
                     lastSend, userMsgs>>
      /\ UNCHANGED nonProcVars

\* 'exit' of child p with the given code: the handler of start() and the
\* host's exit listener
ChildExit ==
  \E p \in Children, code \in ExitCodes :
    /\ child[p].st = "live"
    /\ child' = [child EXCEPT ![p].st = "exited"]
    /\ isRunning' = FALSE
    /\ proc' = 0
    /\ att' = [att EXCEPT
                 ![p].exit = @ + 1,
                 ![p].nonzero = (code = "nonzero"),
                 ![p].report = IF code = "nonzero" THEN "error" ELSE "idle"]
    /\ uiState' = IF code = "nonzero" THEN "error" ELSE "idle"
    /\ UNCHANGED <<buffer, sessionId, nSpawned, nChunks, mode, timers, setups,
                   lastSend, userMsgs, owed>>
    /\ UNCHANGED nonProcVars

\* the stdio streams of child p end after its 'exit' ('close', to which
\* ClaudeProcess registers no listener): no data of p arrives any more
ChildClose ==
  \E p \in Children :
    /\ child[p].st = "exited"
    /\ child' = [child EXCEPT ![p].st = "closed"]
    /\ UNCHANGED <<proc, buffer, sessionId, isRunning, nSpawned, nChunks,
                   mode, timers, setups, uiState, att, lastSend, userMsgs, owed>>
    /\ UNCHANGED nonProcVars

InitProc ==
  /\ proc = 0
  /\ buffer = <<>>
  /\ sessionId = SessionSentinel
  /\ isRunning = FALSE
  /\ child = [p \in Children |-> NoChild]
  /\ nSpawned = 0
  /\ nChunks = 0
  /\ mode = "autoEdit"
  /\ timers = <<>>
  /\ setups = <<>>
  /\ uiState = "idle"
  /\ att = [p \in Children |-> NoAttempt]
  /\ lastSend = NoSend
  /\ userMsgs = [n \in 1..MaxMsgs |-> NoMsg]
  /\ owed = 0

NextProc ==
  \/ HandleSendMessage
  \/ StartProcessAskFirst
  \/ SendTimer
  \/ StopGeneration
  \/ NewChat
  \/ HandleModeChange
  \/ ChildStdout
  \/ ChildExit

(***************************************************************************)
(* ClaudeCodeManager and its host ClaudeCodeViewProvider.                  *)
(***************************************************************************)
ChildrenM == 1..MaxSpawnM

\* a child of sendPrompt: its state, whether abort() signalled it, how many
\* children had been spawned when the conversation was last reset while it
\* ran (-1: it was not), its stdin stream, and the closure variables
\* stdoutBuffer and stderrBuffer of its handlers (of stderrBuffer only
\* whether its trim() is non-empty)
NoChildM == [st |-> "unborn", killed |-> FALSE, reset |-> -1,
             stdin |-> "destroyed", stdoutBuffer |-> <<>>, stderr |-> FALSE]
NoAttemptM == [done |-> 0, error |-> 0, nonzero |-> FALSE]

\* the chunks child c may deliver; every event of the CLI names its session
ChunksOfM(c) ==
  { <<InitTok(c), NL>>, <<Tok("assistant"), NL>>, <<<<"result", c>>, NL>>,
    <<Tok("junk"), NL>>, <<Tok("assistant")>> }

\* the stdout 'data' loop of sendPrompt for one completed line, on the
\* running state r: track the session id, end stdin on the final result,
\* hand the event (or the text event of a non-JSON line) to onEvent, where
\* the provider adopts the session id and calls setSessionId
HandleLineM(line, r) ==
  LET trimmed == TrimLine(line)
  IN  IF trimmed = <<>> THEN r
      ELSE IF ParseOk(trimmed)
      THEN LET event == JsonParse(trimmed)
               sid == event.session_id
           IN  [r EXCEPT
                  !.current = IF sid # SessionSentinel THEN sid ELSE @,
                  !.conv = IF sid # SessionSentinel THEN sid ELSE @,
                  !.stdin = IF event.type = "result" /\ @ = "open"
                            THEN "ended" ELSE @,
                  !.events = Append(@, [ev |-> event.type, msg |-> trimmed])]
      ELSE [r EXCEPT !.events = Append(@, [ev |-> "text", msg |-> trimmed])]

RECURSIVE HandleLinesM(_, _)
HandleLinesM(lines, r) ==
  IF lines = <<>> THEN r
  ELSE HandleLinesM(Tail(lines), HandleLineM(Head(lines), r))

\* the stdout 'data' handler of sendPrompt on the decoded chunk data: the
\* new stdoutBuffer and the loop's result
HandleStdoutM(buf, data, current, conv, stdin) ==
  LET lines == SplitNL(buf \o data)
      r == HandleLinesM(SubSeq(lines, 1, Len(lines) - 1),
                        [current |-> current, conv |-> conv, stdin |-> stdin,
                         events |-> <<>>])
  IN  [buffer |-> lines[Len(lines)], current |-> r.current, conv |-> r.conv,
       stdin |-> r.stdin, events |-> r.events]

\* _trackEvent(event) for an event of child c, on the text tracked so far:
\* an assistant message with text and a result event replace the text, a
\* text event is appended
TrackEvent(text, ev, c) ==
  CASE ev = "assistant" -> <<<<"assistant", c>>>>
    [] ev = "result" -> <<<<"result", c>>>>
    [] ev = "text" -> Append(text, <<"text", c>>)
    [] OTHER -> text

\* onEvent of child c for the events of one stdout chunk, in order
RECURSIVE TrackEvents(_, _, _)
TrackEvents(text, events, c) ==
  IF events = <<>> THEN text
  ELSE TrackEvents(TrackEvent(text, Head(events).ev, c), Tail(events), c)

\* _finalizeAssistantMessage() called from onDone or onError of child c: the
\* messages after it
FinalizeFor(msgs, text, c) ==
  IF text # <<>>
  THEN Append(msgs, [role |-> "assistant", by |-> c, text |-> text])
  ELSE msgs

\* the guard of respond() and respondToTool(): a process is attached and its
\* stdin is not destroyed
CanRespond == _process # 0 /\ mChild[_process].stdin # "destroyed"

\* sendPrompt(prompt, options) once the binary is resolved: spawn, attach,
\* write the prompt.  A failed spawn emits 'error' and then 'close' with the
\* errno as code and nothing on stderr, before any other callback runs.
SendPrompt(ok) ==
  LET c == mSpawned + 1
  IN  /\ mSpawned < MaxSpawnM
      /\ mSpawned' = c
      /\ _process' = IF ok THEN c ELSE 0
      /\ _currentSessionId' = _conversationId
      /\ mChild' = [mChild EXCEPT
                      ![c].st = IF ok THEN "live" ELSE "closed",
                      ![c].stdin = IF ok THEN "open" ELSE "destroyed"]
      /\ mAtt' = [mAtt EXCEPT
                    ![c].error = IF ok THEN 0 ELSE 1,
                    ![c].done = IF ok THEN 0 ELSE 1,
                    ![c].nonzero = ~ok]
      /\ mLastSend' = [NoSend EXCEPT
                         !.writable = ok,
                         !.outcome = IF ok THEN "written" ELSE "none",
                         !.sid = _conversationId]
      /\ UNCHANGED <<mChunks, _conversationId>>

\* _handleSendPrompt(prompt): track the user message, clear the turn's
\* content, sendPrompt.  The callbacks of a failed spawn find nothing to
\* finalize.
HandleSendPrompt ==
  /\ _messages' = _messages
  /\ _currentAssistantText' = <<>>
  /\ \E ok \in BOOLEAN : SendPrompt(ok)

\* the webview's claude:send
ClaudeSend ==
  /\ HandleSendPrompt
  /\ UNCHANGED nonMgrVars

\* the webview's claude:respond: respond(), or a new prompt when it returns
\* false
ClaudeRespond ==
  /\ IF CanRespond
     THEN /\ mLastSend' =
               [writable |-> mChild[_process].stdin = "open",
                outcome |-> "written",
                sid |-> IF _conversationId # 0 THEN _conversationId
                        ELSE _currentSessionId,
                expect |-> SessionSentinel]
          /\ _messages' = _messages
          /\ _currentAssistantText' = <<>>
          /\ UNCHANGED <<_process, _currentSessionId, mChild, mSpawned,
                         mChunks, _conversationId, mAtt>>
     ELSE HandleSendPrompt
  /\ UNCHANGED nonMgrVars

\* the webview's claude:respondToTool: the provider drops the return value
ClaudeRespondToTool ==
  /\ mLastSend' =
       IF CanRespond
       THEN [writable |-> mChild[_process].stdin = "open",
             outcome |-> "written",
             sid |-> IF _conversationId # 0 THEN _conversationId
                     ELSE _currentSessionId,
             expect |-> SessionSentinel]
       ELSE [NoSend EXCEPT !.outcome = "reported"]
  /\ UNCHANGED <<_process, _currentSessionId, mChild, mSpawned, mChunks,
                 _conversationId, _currentAssistantText, _messages, mAtt>>
  /\ UNCHANGED nonMgrVars

\* abort()
Abort ==
  /\ mChild' = IF _process # 0
               THEN [mChild EXCEPT ![_process].killed = TRUE] ELSE mChild
  /\ _process' = 0

\* the webview's claude:abort, and the disposal of the view
ClaudeAbort ==
  /\ Abort
  /\ UNCHANGED <<_currentSessionId, mSpawned, mChunks, _conversationId,
                 _currentAssistantText, _messages, mAtt, mLastSend>>
  /\ UNCHANGED nonMgrVars

\* the children, each running one marked as one the conversation was reset
\* under
ResetUnder(ch) ==
  [c \in ChildrenM |->
     IF ch[c].st = "live" THEN [ch[c] EXCEPT !.reset = mSpawned] ELSE ch[c]]

\* the webview's claude:newConversation
ClaudeNewConversation ==
  /\ _conversationId' = 0
  /\ _messages' = <<>>
  /\ _currentAssistantText' = <<>>
  /\ mChild' = ResetUnder(mChild)
  /\ UNCHANGED <<_process, _currentSessionId, mSpawned, mChunks, mAtt,
                 mLastSend>>
  /\ UNCHANGED nonMgrVars

\* the command newConversation(): reset and abort
NewConversation ==
  /\ _conversationId' = 0
  /\ _messages' = <<>>
  /\ _currentAssistantText' = <<>>
  /\ mChild' = ResetUnder(IF _process # 0
                          THEN [mChild EXCEPT ![_process].killed = TRUE]
                          ELSE mChild)
  /\ _process' = 0
  /\ UNCHANGED <<_currentSessionId, mSpawned, mChunks, mAtt, mLastSend>>
  /\ UNCHANGED nonMgrVars

\* stdout 'data' of child c
ChildStdoutM ==
  \E c \in ChildrenM :
    \E chunk \in ChunksOfM(c) :
      /\ mChild[c].st = "live"
      /\ mChunks < MaxChunksM
      /\ mChunks' = mChunks + 1
      /\ LET r == HandleStdoutM(mChild[c].stdoutBuffer, ToStringUtf8(chunk),
                                _currentSessionId, _conversationId,
                                mChild[c].stdin)
         IN  /\ mChild' = [mChild EXCEPT ![c].stdoutBuffer = r.buffer,
                                         ![c].stdin = r.stdin]
             /\ _currentSessionId' = r.current
             /\ _conversationId' = r.conv
             /\ _currentAssistantText' =
                  TrackEvents(_currentAssistantText, r.events, c)
      /\ UNCHANGED <<_process, mSpawned, _messages, mAtt, mLastSend>>
      /\ UNCHANGED nonMgrVars

\* stderr 'data' of child c with visible text
ChildStderrM ==
  \E c \in ChildrenM :
    /\ mChild[c].st = "live"
    /\ ~mChild[c].stderr
    /\ mChild' = [mChild EXCEPT ![c].stderr = TRUE]
    /\ UNCHANGED <<_process, _currentSessionId, mSpawned, mChunks,
                   _conversationId, _currentAssistantText, _messages, mAtt,
                   mLastSend>>
    /\ UNCHANGED nonMgrVars

\* the stdin stream that end() has closed finishes and is destroyed
StdinFinish ==
  \E c \in ChildrenM :
    /\ mChild[c].stdin = "ended"
    /\ mChild' = [mChild EXCEPT ![c].stdin = "destroyed"]
    /\ UNCHANGED <<_process, _currentSessionId, mSpawned, mChunks,
                   _conversationId, _currentAssistantText, _messages, mAtt,
                   mLastSend>>
    /\ UNCHANGED nonMgrVars

\* 'close' of child c with the given exit code: flush the unterminated tail
\* of stdout as an event, detach, report
ChildCloseM ==
  \E c \in ChildrenM, code \in ExitCodes :
    /\ mChild[c].st = "live"
    /\ LET tail == TrimLine(mChild[c].stdoutBuffer)
           sid == IF tail # <<>> /\ ParseOk(tail)
                  THEN JsonParse(tail).session_id ELSE SessionSentinel
           isError == code = "nonzero" /\ mChild[c].stderr
       IN  /\ _conversationId' = IF sid # SessionSentinel THEN sid
                                 ELSE _conversationId
           /\ _currentSessionId' = IF sid # SessionSentinel THEN sid
                                   ELSE _currentSessionId
           /\ mAtt' = [mAtt EXCEPT
                         ![c].nonzero = (code = "nonzero"),
                         ![c].error = IF isError THEN @ + 1 ELSE @,
                         ![c].done = IF isError THEN @ ELSE @ + 1]
           /\ _messages' =
                FinalizeFor(_messages,
                            IF tail = <<>> THEN _currentAssistantText
                            ELSE TrackEvent(_currentAssistantText,
                                            IF ParseOk(tail)
                                            THEN JsonParse(tail).type
                                            ELSE "text", c),
                            c)
           /\ _currentAssistantText' = <<>>
    /\ mChild' = [mChild EXCEPT ![c].st = "closed", ![c].stdin = "destroyed"]
    /\ _process' = 0
    /\ UNCHANGED <<mSpawned, mChunks, mLastSend>>
    /\ UNCHANGED nonMgrVars

InitMgr ==
  /\ _process = 0
  /\ _currentSessionId = 0
  /\ mChild = [c \in ChildrenM |-> NoChildM]
  /\ mSpawned = 0
  /\ mChunks = 0
  /\ _conversationId = 0
  /\ _currentAssistantText = <<>>
  /\ _messages = <<>>
  /\ mAtt = [c \in ChildrenM |-> NoAttemptM]
  /\ mLastSend = NoSend

NextMgr ==
  \/ ClaudeSend
  \/ ClaudeRespond
  \/ ClaudeRespondToTool
  \/ ClaudeAbort
  \/ ClaudeNewConversation
  \/ NewConversation
  \/ ChildStdoutM
  \/ ChildStderrM
  \/ StdinFinish
  \/ ChildCloseM

(***************************************************************************)
(* The line framers as functions of the byte stream: one stream is drawn,  *)
(* cut into read chunks in every way, and fed to the stdout handlers of    *)
(* both supervisors.                                                       *)
(***************************************************************************)
FramerBytes ==
  {Tok("lb"), Tok("rb"), Tok("c3"), Tok("a9"), Tok("sp"), NL}

Streams == UNION {[1..n -> FramerBytes] : n \in 0..MaxStream}

\* one stdout 'data' callback with the next k bytes of the stream
FramerFeed ==
  \E k \in 1..Len(fRest) :
    LET chunk == SubSeq(fRest, 1, k)
        data == ToStringUtf8(chunk)
        h == HandleStdout(fBuf, data, SessionSentinel, "idle")
        m == HandleStdoutM(fBufM, data, SessionSentinel, SessionSentinel,
                           "open")
    IN  /\ fRest' = SubSeq(fRest, k + 1, Len(fRest))
        /\ fFed' = fFed \o chunk
        /\ fText' = fText \o data
        /\ fBuf' = h.buffer
        /\ fOut' = fOut \o h.events
        /\ fBufM' = m.buffer
        /\ fOutM' = fOutM \o m.events
        /\ UNCHANGED nonFrmVars

\* the framers before the first chunk
InitFrm ==
  /\ fRest = <<>>
  /\ fFed = <<>>
  /\ fText = <<>>
  /\ fBuf = <<>>
  /\ fOut = <<>>
  /\ fBufM = <<>>
  /\ fOutM = <<>>

NextFrm == FramerFeed

(***************************************************************************)
(* The transcript: ClaudeCodeView in the webview and the mirror of         *)
(* ClaudeCodeViewProvider, both fed the events of one CLI turn.            *)
(***************************************************************************)
ToolIds == 1..MaxTools

\* an optional field that is not set: a value no string of fragments equals
Undef == <<<<"undefined", 0, 0>>>>

\* A string is a sequence of fragments <<kind, i, n>>: the n-th text delta
\* of content block i, the text of a result event, the content of a text
\* event, a newline, a prompt, the content of a tool_result.
Frag(k, i, n) == <<k, i, n>>
ResultText == <<Frag("result", 0, 0)>>
TextContent == <<Frag("text", 0, 0)>>
NewLine == <<Frag("nl", 0, 0)>>
ToolErrorText == <<Frag("Tool error", 0, 0)>>
ResultContents(id) == {<<>>, <<Frag("out", id, 0)>>}
PromptText(n) == <<Frag("prompt", n, 0)>>

\* the partial_json pieces of one tool input, in the order they stream
JsonPieces == <<"{\"k\":", "1}">>
\* JSON.parse(buf) succeeds: the buffer holds all pieces
InputParses(buf) == buf = JsonPieces
\* the fragments an input_json_delta may carry
PartialJsons == {JsonPieces[i] : i \in 1..Len(JsonPieces)}

\* content blocks; a field a block type does not have holds its zero value
TextBlock(t) ==
  [type |-> "text", text |-> t, id |-> 0, input |-> <<>>,
   isStreaming |-> FALSE, result |-> Undef, error |-> Undef]
ToolBlock(id, input, streaming) ==
  [type |-> "tool_use", text |-> <<>>, id |-> id, input |-> input,
   isStreaming |-> streaming, result |-> Undef, error |-> Undef]

\* the provider's PersistedToolBlock
PersistedTool(id, input) ==
  [type |-> "tool_use", id |-> id, input |-> input, result |-> Undef,
   error |-> Undef]

\* Map.prototype.set on this._currentToolBlocks: the entry of a key the map
\* holds is replaced where it stands, a new key is added at the end
MapSet(tools, t) ==
  IF \E i \in 1..Len(tools) : tools[i].id = t.id
  THEN [i \in 1..Len(tools) |-> IF tools[i].id = t.id THEN t ELSE tools[i]]
  ELSE Append(tools, t)

NoBlock == [type |-> "none", index |-> -1, id |-> 0, text |-> <<>>,
            input |-> <<>>]

\* [...blocks].reverse().find(b => b.type === 'tool_use' && b.isStreaming):
\* the last streaming tool block, as a sequence of at most one element
LastStreamingTool(blocks) ==
  LET hits == {i \in 1..Len(blocks) :
                 blocks[i].type = "tool_use" /\ blocks[i].isStreaming}
  IN  IF hits = {} THEN <<>>
      ELSE <<blocks[CHOOSE i \in hits : \A j \in hits : j <= i]>>

\* ensureAssistantMessage(prev)
EnsureAssistantMessage(prev) ==
  IF prev # <<>> /\ prev[Len(prev)].role = "assistant" THEN prev
  ELSE Append(prev, [role |-> "assistant", content |-> <<>>])

\* the blocks updateLastAssistantBlocks hands to its updater
LastAssistantBlocks(prev) ==
  LET withAssistant == EnsureAssistantMessage(prev)
  IN  withAssistant[Len(withAssistant)].content

\* updateLastAssistantBlocks(prev, updater), updated being what the updater
\* returns for LastAssistantBlocks(prev)
UpdateLastAssistantBlocks(prev, updated) ==
  LET withAssistant == EnsureAssistantMessage(prev)
  IN  [withAssistant EXCEPT ![Len(withAssistant)].content = updated]

\* getOrCreateLastTextBlock(blocks)
GetOrCreateLastTextBlock(blocks) ==
  IF blocks # <<>> /\ blocks[Len(blocks)].type = "text" THEN blocks
  ELSE Append(blocks, TextBlock(<<>>))

\* the updater of the text handlers: the last text block shows the text
SetLastText(blocks, text) ==
  LET updated == GetOrCreateLastTextBlock(blocks)
  IN  [updated EXCEPT ![Len(updated)].text = text]

\* the text blocks' texts of a snapshot's content, joined
RECURSIVE JoinTexts(_)
JoinTexts(content) ==
  IF content = <<>> THEN <<>>
  ELSE (IF Head(content).type = "text" THEN Head(content).text ELSE <<>>)
       \o JoinTexts(Tail(content))

\* the subsequence of s at the indices of set S
RECURSIVE SubAt(_, _)
SubAt(s, S) ==
  IF s = <<>> THEN <<>>
  ELSE LET n == Len(s)
           rest == SubAt(SubSeq(s, 1, n - 1), S)
       IN  IF n \in S THEN Append(rest, s[n]) ELSE rest

\* the provider's PersistedTextBlock
PersistedText(t) ==
  [type |-> "text", id |-> 0, input |-> <<>>, text |-> t, result |-> Undef,
   error |-> Undef]

\* String.prototype.trim() leaves nothing
IsBlankText(t) == \A i \in 1..Len(t) : t[i][1] \in {"nl", "sp"}

\* a buffer that is never read back: every fragment is parsed on its own
BufOfNone(bufs, id) == <<>>

\* Map.prototype.get(id) ?? ''
BufOf(bufs, id) == IF id \in DOMAIN bufs THEN bufs[id] ELSE <<>>

\* Map.prototype.set(id, buf)
SetBuf(bufs, id, buf) == (id :> buf) @@ bufs

\* a map that still holds the fragments of a tool
StaleBufs == (1 :> <<JsonPieces[1]>>)

\* new Map(), and the map after clear()
NoBufs == [id \in {} |-> <<>>]

\* the tool blocks of a content array / the ids of a sequence of tools
IsTool(b) == b.type = "tool_use"
IdsOf(tools) == {tools[i].id : i \in 1..Len(tools)}

\* a tool_result applied to one tool block of the webview
WithResult(b, isError, resultText) ==
  IF isError
  THEN [b EXCEPT !.isStreaming = FALSE,
                 !.error = IF resultText # <<>> THEN resultText
                           ELSE ToolErrorText]
  ELSE [b EXCEPT !.isStreaming = FALSE, !.result = resultText]

\* existingToolMap of the snapshot merge: the tool blocks of the content
\* keyed by id, each id at the place of its first block and with its last
\* block as value
ExistingToolMap(content) ==
  LET tools == SelectSeq(content, IsTool)
      LastOf(id) ==
        tools[CHOOSE i \in 1..Len(tools) :
                /\ tools[i].id = id
                /\ \A j \in (i + 1)..Len(tools) : tools[j].id # id]
      keyed == [i \in 1..Len(tools) |->
                  [first |-> \A j \in 1..(i - 1) : tools[j].id # tools[i].id,
                   value |-> LastOf(tools[i].id)]]
      IsFirst(e) == e.first
      firsts == SelectSeq(keyed, IsFirst)
  IN  [i \in 1..Len(firsts) |-> firsts[i].value]

\* the merge of an assistant snapshot into the content of the last
\* assistant message: results and errors of known tools are kept, tools the
\* snapshot does not name are prepended
MergeSnapshot(content, newBlocks) ==
  LET existing == ExistingToolMap(content)
      newToolIds == IdsOf(SelectSeq(newBlocks, IsTool))
      Known(id) == existing[CHOOSE i \in 1..Len(existing) : existing[i].id = id]
      Merged(b) ==
        IF IsTool(b) /\ b.id \in IdsOf(existing)
        THEN [b EXCEPT
                !.result = IF Known(b.id).result # Undef
                           THEN Known(b.id).result ELSE @,
                !.error = IF Known(b.id).error # Undef
                          THEN Known(b.id).error ELSE @]
        ELSE b
      Orphaned(b) == b.id \notin newToolIds
  IN  SelectSeq(existing, Orphaned)
      \o [i \in 1..Len(newBlocks) |-> Merged(newBlocks[i])]

\* _finalizeAssistantMessage(): the messages of the mirror afterwards
FinalizeAssistantMessage(msgs, text, tools) ==
  LET blocks == (IF IsBlankText(text) THEN <<>> ELSE <<PersistedText(text)>>)
                \o tools
  IN  IF blocks # <<>>
      THEN Append(msgs, [role |-> "assistant", content |-> blocks])
      ELSE msgs

\* the content of an assistant snapshot naming the completed blocks done
SnapshotContent(done) ==
  LET AsBlock(d) == IF d.type = "text" THEN TextBlock(d.text)
                    ELSE ToolBlock(d.id, IF InputParses(d.input) THEN d.input
                                         ELSE <<>>, FALSE)
  IN  [i \in 1..Len(done) |-> AsBlock(done[i])]

(***************************************************************************)
(* The user's send, and the events of the turn.  The provider's onEvent    *)
(* runs _trackEvent and posts the event to the webview, whose              *)
(* handleMessage handles it: one action per event covers both.             *)
(***************************************************************************)
\* the turn's history: has a second API message begun, has a text_delta
\* arrived, has the result event arrived and with which text, and has
\* anything arrived that is outside the order of one reply (a snapshot ahead
\* of the stream, of a part of the stopped blocks or while a block is being
\* streamed, a stray tool_result, a line that is not JSON, a second result
\* event, an abort)
NoTurn == [multi |-> FALSE, deltas |-> FALSE, ended |-> FALSE,
           result |-> <<>>, anomaly |-> FALSE, odd |-> 0]

\* one more event outside the order of a reply may happen in the turn
MayBeOdd == sTurn.odd < MaxOdd

\* handleSend() in the webview, then claude:send and _handleSendPrompt in
\* the provider
ViewSend ==
  /\ ~vIsStreaming
  /\ sProc = "none"
  /\ nEvents < MaxEvents
  /\ nEvents' = nEvents + 1
  /\ nSends' = nSends + 1
  /\ vMessages' = Append(vMessages,
                         [role |-> "user",
                          content |-> <<TextBlock(PromptText(nSends + 1))>>])
  /\ vIsStreaming' = TRUE
  /\ vTextBuf' = <<>>
  /\ vToolBufs' = NoBufs
  /\ tMessages' = Append(tMessages,
                         [role |-> "user",
                          content |-> <<PersistedText(PromptText(nSends + 1))>>])
  /\ tText' = <<>>
  /\ tTools' = <<>>
  /\ sOpen' = NoBlock
  /\ sIdx' = 0
  /\ sDone' = <<>>
  /\ sPending' = {}
  /\ vLast' = "send"
  /\ sAhead' = {}
  /\ sProc' = "running"
  /\ sTurn' = NoTurn
  /\ UNCHANGED <<vToolIndex, nTools, vGot, tGot>>
  /\ UNCHANGED nonViewVars

\* one more event of the turn may be delivered: the provider forwards every
\* event of the child, and a killed child's last output may still arrive
MayDeliver == sProc # "none" /\ nEvents < MaxEvents

\* stream_event message_start: the next API message of the turn begins;
\* neither handler has a case for it
EvMessageStart ==
  /\ MayDeliver
  /\ sOpen = NoBlock
  /\ sIdx > 0
  /\ UNCHANGED nEvents
  /\ sIdx' = 0
  /\ sDone' = <<>>
  /\ vLast' = "message_start"
  /\ sTurn' = [sTurn EXCEPT !.multi = TRUE]
  /\ UNCHANGED <<vMessages, vTextBuf, vToolBufs, vToolIndex, vIsStreaming,
                 tText, tTools, tMessages, sOpen, sPending, nTools, nSends,
                 vGot, tGot>>
  /\ UNCHANGED <<sAhead, sProc>>
  /\ UNCHANGED nonViewVars

\* stream_event content_block_start of a text block: no handler acts on it
EvTextStart ==
  /\ MayDeliver
  /\ sOpen = NoBlock
  /\ UNCHANGED nEvents
  /\ sOpen' = [NoBlock EXCEPT !.type = "text", !.index = sIdx]
  /\ sIdx' = sIdx + 1
  /\ vLast' = "text_start"
  /\ UNCHANGED <<vMessages, vTextBuf, vToolBufs, vToolIndex, vIsStreaming,
                 tText, tTools, tMessages, sDone, sPending, nTools, nSends,
                 vGot, tGot>>
  /\ UNCHANGED <<sAhead, sProc, sTurn>>
  /\ UNCHANGED nonViewVars

\* stream_event content_block_start of a tool_use block, whose id is fresh
\* or one that an assistant event has named already; the provider's Map.set
\* replaces the entry of an id it holds, in place
EvToolStart ==
  \E id \in sAhead \cup (IF nTools < MaxTools THEN {nTools + 1} ELSE {}) :
      /\ MayDeliver
      /\ sOpen = NoBlock
      /\ nTools' = IF id \in sAhead THEN nTools ELSE id
      /\ sAhead' = sAhead \ {id}
      /\ nEvents' = nEvents + 1
      /\ sOpen' = [NoBlock EXCEPT !.type = "tool_use", !.index = sIdx,
                                  !.id = id]
      /\ sIdx' = sIdx + 1
      /\ sPending' = sPending \cup {id}
      /\ vToolIndex' = sIdx
      /\ vToolBufs' = SetBuf(vToolBufs, id, <<>>)
      /\ vMessages' =
           UpdateLastAssistantBlocks(vMessages,
             Append(LastAssistantBlocks(vMessages), ToolBlock(id, <<>>, TRUE)))
      /\ tTools' = MapSet(tTools, PersistedTool(id, <<>>))
      /\ vLast' = "tool_start"
      /\ UNCHANGED <<vTextBuf, vIsStreaming, tText, tMessages, sDone, nSends,
                     vGot, tGot>>
      /\ UNCHANGED <<sProc, sTurn>>
      /\ UNCHANGED nonViewVars

\* stream_event content_block_delta with a text_delta for the open block
EvTextDelta ==
  LET text == Frag("delta", sOpen.index, Len(sOpen.text) + 1)
      bufferedText == Append(vTextBuf, text)
  IN  /\ MayDeliver
      /\ sOpen.type = "text"
      /\ nEvents' = nEvents + 1
      /\ sOpen' = [sOpen EXCEPT !.text = Append(@, text)]
      /\ vTextBuf' = bufferedText
      /\ vMessages' =
           UpdateLastAssistantBlocks(vMessages,
             SetLastText(LastAssistantBlocks(vMessages), bufferedText))
      /\ tText' = Append(tText, text)
      /\ vLast' = "text_delta"
      /\ sTurn' = [sTurn EXCEPT !.deltas = TRUE]
      /\ UNCHANGED <<vToolBufs, vToolIndex, vIsStreaming, tTools, tMessages,
                     sIdx, sDone, sPending, nTools, nSends, vGot, tGot>>
      /\ UNCHANGED <<sAhead, sProc>>
      /\ UNCHANGED nonViewVars

\* stream_event content_block_delta with an input_json_delta for the open
\* tool_use block: the webview buffers it for the last streaming tool block
EvInputDelta ==
 \E partial_json \in PartialJsons :
  LET blocks == LastAssistantBlocks(vMessages)
      toolBlock == LastStreamingTool(blocks)
      id == toolBlock[1].id
      buf == Append(BufOf(vToolBufs, id), partial_json)
      WithInput(b) == IF IsTool(b) /\ b.id = id
                      THEN [b EXCEPT !.input = buf] ELSE b
  IN  /\ MayDeliver
      /\ sOpen.type = "tool_use"
      /\ Len(sOpen.input) < MaxPieces
      /\ nEvents' = nEvents + 1
      /\ sOpen' = [sOpen EXCEPT !.input = Append(@, partial_json)]
      /\ IF toolBlock # <<>>
         THEN /\ vToolBufs' = SetBuf(vToolBufs, id, buf)
              /\ vMessages' =
                   IF InputParses(buf)
                   THEN UpdateLastAssistantBlocks(vMessages,
                          [i \in 1..Len(blocks) |-> WithInput(blocks[i])])
                   ELSE vMessages
         ELSE UNCHANGED <<vToolBufs, vMessages>>
      /\ vLast' = "input_delta"
      /\ UNCHANGED <<vTextBuf, vToolIndex, vIsStreaming, tText, tTools,
                     tMessages, sIdx, sDone, sPending, nTools, nSends, vGot,
                     tGot>>
      /\ UNCHANGED <<sAhead, sProc, sTurn>>
      /\ UNCHANGED nonViewVars

\* stream_event content_block_stop of the open block
EvBlockStop ==
  LET blocks == LastAssistantBlocks(vMessages)
      Finalized(b) ==
        IF ~IsTool(b) \/ ~b.isStreaming THEN b
        ELSE [b EXCEPT !.isStreaming = FALSE,
                       !.input = IF InputParses(BufOf(vToolBufs, b.id))
                                 THEN BufOf(vToolBufs, b.id) ELSE @]
  IN  /\ MayDeliver
      /\ sOpen # NoBlock
      /\ nEvents' = nEvents + 1
      /\ sDone' = Append(sDone, sOpen)
      /\ sOpen' = NoBlock
      /\ vToolIndex' = -1
      /\ vMessages' =
           UpdateLastAssistantBlocks(vMessages,
             [i \in 1..Len(blocks) |-> Finalized(blocks[i])])
      /\ vLast' = "block_stop"
      /\ UNCHANGED <<vTextBuf, vToolBufs, vIsStreaming, tText, tTools,
                     tMessages, sIdx, sPending, nTools, nSends, vGot, tGot>>
      /\ UNCHANGED <<sAhead, sProc, sTurn>>
      /\ UNCHANGED nonViewVars

\* an assistant event whose snapshot names a tool_use block that the token
\* stream has not announced yet
EvAssistantAhead ==
  LET id == nTools + 1
      newBlocks == <<ToolBlock(id, <<>>, FALSE)>>
  IN  /\ MayDeliver
      /\ MayBeOdd
      /\ sOpen = NoBlock
      /\ nTools < MaxTools
      /\ nTools' = id
      /\ sAhead' = sAhead \cup {id}
      /\ sPending' = sPending \cup {id}
      /\ nEvents' = nEvents + 1
      /\ vTextBuf' = <<>>
      /\ vMessages' =
           UpdateLastAssistantBlocks(vMessages,
             MergeSnapshot(LastAssistantBlocks(vMessages), newBlocks))
      /\ tTools' = <<PersistedTool(id, <<>>)>>
      /\ vLast' = "assistant"
      /\ UNCHANGED <<vToolBufs, vToolIndex, vIsStreaming, tText, tMessages,
                     sOpen, sIdx, sDone, nSends, vGot, tGot>>
      /\ sTurn' = [sTurn EXCEPT !.anomaly = TRUE, !.odd = @ + 1]
      /\ UNCHANGED sProc
      /\ UNCHANGED nonViewVars

\* an assistant event: a snapshot naming the completed blocks at the
\* positions S of the API message
EvAssistantOf(S) ==
    LET newBlocks == SnapshotContent(SubAt(sDone, S))
        newText == JoinTexts(newBlocks)
        tools == SelectSeq(newBlocks, IsTool)
        newTools == [i \in 1..Len(tools) |->
                       PersistedTool(tools[i].id, tools[i].input)]
    IN  /\ MayDeliver
        /\ nEvents' = nEvents + 1
        /\ vTextBuf' = <<>>
        /\ vMessages' =
             UpdateLastAssistantBlocks(vMessages,
               MergeSnapshot(LastAssistantBlocks(vMessages), newBlocks))
        /\ tText' = IF newText # <<>> THEN newText ELSE tText
        /\ tTools' = IF newTools # <<>> THEN newTools ELSE tTools
        /\ vLast' = "assistant"
        /\ UNCHANGED <<vToolBufs, vToolIndex, vIsStreaming, tMessages, sOpen,
                       sIdx, sDone, sPending, nTools, nSends, vGot, tGot>>
        /\ sTurn' = [sTurn EXCEPT
                       !.anomaly = @ \/ S # 1..Len(sDone) \/ sOpen # NoBlock]
        /\ UNCHANGED <<sAhead, sProc>>
        /\ UNCHANGED nonViewVars

\* an assistant event: a snapshot naming some completed blocks of the API
\* message
EvAssistant == \E S \in (SUBSET (1..Len(sDone))) \ {{}} : EvAssistantOf(S)

\* a tool_use_id that no tool_use block of the run carries
StrayId == MaxTools + 1

\* a tool_result event carrying tool_use_id id, is_error isError and the
\* content resultText
EvToolResultOf(id, isError, resultText) ==
      LET blocks == LastAssistantBlocks(vMessages)
          Answered(b) == IF IsTool(b) /\ b.id = id
                         THEN WithResult(b, isError, resultText) ELSE b
          Tracked(t) ==
            IF t.id # id THEN t
            ELSE IF isError
            THEN [t EXCEPT !.error = IF resultText # <<>> THEN resultText
                                     ELSE ToolErrorText]
            ELSE [t EXCEPT !.result = resultText]
      IN  /\ MayDeliver
          /\ id = StrayId => MayBeOdd
          /\ sOpen.id # id
          /\ nEvents' = nEvents + 1
          /\ sPending' = sPending \ {id}
          /\ vMessages' =
               UpdateLastAssistantBlocks(vMessages,
                 [i \in 1..Len(blocks) |-> Answered(blocks[i])])
          /\ tTools' = [i \in 1..Len(tTools) |-> Tracked(tTools[i])]
          /\ vGot' = IF id \in IdsOf(SelectSeq(blocks, IsTool))
                     THEN vGot \cup {id} ELSE vGot
          /\ tGot' = IF id \in IdsOf(tTools) THEN tGot \cup {id} ELSE tGot
          /\ vLast' = "tool_result"
          /\ UNCHANGED <<vTextBuf, vToolBufs, vToolIndex, vIsStreaming, tText,
                         tMessages, sOpen, sIdx, sDone, nTools, nSends>>
          /\ sTurn' = IF id = StrayId
                      THEN [sTurn EXCEPT !.anomaly = TRUE, !.odd = @ + 1]
                      ELSE sTurn
          /\ UNCHANGED <<sAhead, sProc>>
          /\ UNCHANGED nonViewVars

\* a tool_result event for a tool_use block of the turn that is not being
\* streamed, or for an id that was never opened
EvToolResult ==
  \E id \in sPending \cup {StrayId}, isError \in BOOLEAN :
    \E resultText \in ResultContents(id) :
      EvToolResultOf(id, isError, resultText)

\* a user wire message whose content holds a tool_result for id: the
\* manager hands it to onEvent as it is, and neither _trackEvent nor
\* handleMessage has a case for the type user
EvUserOf(id, isError, resultText) ==
  /\ MayDeliver
  /\ sOpen.id # id
  /\ UNCHANGED nEvents
  /\ sPending' = sPending \ {id}
  /\ vLast' = "user"
  /\ UNCHANGED <<vMessages, vTextBuf, vToolBufs, vToolIndex, vIsStreaming,
                 tText, tTools, tMessages, sOpen, sIdx, sDone, nTools, nSends,
                 vGot, tGot>>
  /\ UNCHANGED <<sAhead, sProc, sTurn>>
  /\ UNCHANGED nonViewVars

\* a user wire message for a tool_use block of the turn
EvUser ==
  \E id \in sPending, isError \in BOOLEAN :
    \E resultText \in ResultContents(id) : EvUserOf(id, isError, resultText)

\* the texts the CLI's result event may carry: the text of the last API
\* message when the stream has carried it, and otherwise no text or any text
ReplyTexts == IF JoinTexts(SnapshotContent(sDone)) # <<>>
              THEN {JoinTexts(SnapshotContent(sDone))} ELSE {<<>>, ResultText}

\* a result event carrying the final text, which may be empty
EvResult ==
  \E result \in ReplyTexts :
    /\ MayDeliver
    /\ sOpen = NoBlock
    /\ nEvents' = nEvents + 1
    /\ IF ~IsBlankText(result)
       THEN /\ vTextBuf' = result
            /\ vMessages' =
                 UpdateLastAssistantBlocks(vMessages,
                   SetLastText(LastAssistantBlocks(vMessages), result))
       ELSE UNCHANGED <<vTextBuf, vMessages>>
    /\ tText' = result
    /\ vLast' = "result"
    /\ UNCHANGED <<vToolBufs, vToolIndex, vIsStreaming, tTools, tMessages,
                   sOpen, sIdx, sDone, sPending, nTools, nSends, vGot, tGot>>
    /\ sTurn' = [sTurn EXCEPT !.ended = TRUE, !.result = result,
                              !.anomaly = @ \/ sTurn.ended]
    /\ UNCHANGED <<sAhead, sProc>>
    /\ UNCHANGED nonViewVars

\* a text event: a stdout line that was not JSON
EvText ==
  LET bufferedText == vTextBuf \o TextContent \o NewLine
  IN  /\ MayDeliver
      /\ MayBeOdd
      /\ nEvents' = nEvents + 1
      /\ vTextBuf' = bufferedText
      /\ vMessages' =
           UpdateLastAssistantBlocks(vMessages,
             SetLastText(LastAssistantBlocks(vMessages), bufferedText))
      /\ tText' = tText \o TextContent \o NewLine
      /\ vLast' = "text"
      /\ UNCHANGED <<vToolBufs, vToolIndex, vIsStreaming, tTools, tMessages,
                     sOpen, sIdx, sDone, sPending, nTools, nSends, vGot, tGot>>
      /\ sTurn' = [sTurn EXCEPT !.anomaly = TRUE, !.odd = @ + 1]
      /\ UNCHANGED <<sAhead, sProc>>
      /\ UNCHANGED nonViewVars

\* onDone of the provider (finalize the mirror, post claude:done) and the
\* webview's claude:done
ViewDone ==
  /\ sProc # "none"
  /\ sProc' = "none"
  /\ tMessages' = FinalizeAssistantMessage(tMessages, tText, tTools)
  /\ tText' = <<>>
  /\ tTools' = <<>>
  /\ vIsStreaming' = FALSE
  /\ vTextBuf' = <<>>
  /\ vToolBufs' = NoBufs
  /\ vToolIndex' = -1
  /\ sOpen' = NoBlock
  /\ sPending' = {}
  /\ vLast' = "done"
  /\ sAhead' = {}
  /\ UNCHANGED <<vMessages, sIdx, sDone, nEvents, nTools, nSends, vGot, tGot,
                 sTurn>>
  /\ UNCHANGED nonViewVars

\* handleAbort() in the webview, claude:abort in the provider (abort() kills
\* the child and forgets it, claude:aborted is posted at once) and the
\* webview's claude:aborted; the provider's mirror waits for the child's
\* close
ViewAbort ==
  /\ vIsStreaming
  /\ MayBeOdd
  /\ sProc' = IF sProc = "running" THEN "killed" ELSE sProc
  /\ vIsStreaming' = FALSE
  /\ vTextBuf' = <<>>
  /\ vToolBufs' = NoBufs
  /\ vToolIndex' = -1
  /\ vLast' = "aborted"
  /\ sTurn' = [sTurn EXCEPT !.anomaly = TRUE, !.odd = @ + 1]
  /\ UNCHANGED <<vMessages, tText, tTools, tMessages, sOpen, sIdx, sDone,
                 sPending, nEvents, nTools, nSends, vGot, tGot, sAhead>>
  /\ UNCHANGED nonViewVars

InitView ==
  /\ vMessages = <<>>
  /\ vTextBuf = <<>>
  /\ vToolBufs = NoBufs
  /\ vToolIndex = -1
  /\ vIsStreaming = FALSE
  /\ tText = <<>>
  /\ tTools = <<>>
  /\ tMessages = <<>>
  /\ sOpen = NoBlock
  /\ sIdx = 0
  /\ sDone = <<>>
  /\ sPending = {}
  /\ nEvents = 0
  /\ nTools = 0
  /\ nSends = 0
  /\ vLast = "none"
  /\ vGot = {}
  /\ tGot = {}
  /\ sAhead = {}
  /\ sProc = "none"
  /\ sTurn = NoTurn

NextView ==
  \/ ViewSend
  \/ EvMessageStart
  \/ EvTextStart
  \/ EvToolStart
  \/ EvTextDelta
  \/ EvInputDelta
  \/ EvBlockStop
  \/ EvAssistant
  \/ EvAssistantAhead
  \/ EvToolResult
  \/ EvUser
  \/ EvResult
  \/ EvText
  \/ ViewDone
  \/ ViewAbort

(***************************************************************************)
(* The tool-permission gateway: ApprovalServer (src/src/types.ts), the     *)
(* provider's pendingApprovals (src/src/webview-provider.ts) and the       *)
(* PreToolUse hook script the provider generates.                          *)
(***************************************************************************)
\* safeTools of the hook script
SafeTools == {"Read", "Glob", "Grep", "LS", "Task", "TodoRead", "TodoWrite"}

\* the tools the CLI asks the hook about
ToolNames == {"Read", "Bash"}

\* what the CLI writes to the hook's stdin: an object with tool_name, an
\* object without it, the JSON literal null, or text JSON.parse rejects
StdinKinds == {"object", "noname", "null", "garbage"}

\* a hook that reads a field the CLI does not write
ToolNameMisread(h) == ""

\* data.tool_name || '' of the hook script
ToolNameOf(h) == IF h.stdin = "object" THEN h.tool ELSE ""

\* the decision object the hook writes for a parsed gateway response
DecisionOf(approved) == IF approved THEN "allow" ELSE "deny"

\* a hook process that has not read its stdin to the end; server: the
\* gateway whose port its script holds still listens; live: the session
\* whose CLI started it still runs (a hook that has exited holds neither)
NewHook(tool, stdin) ==
  [tool |-> tool, stdin |-> stdin, server |-> TRUE, live |-> TRUE,
   pc |-> "read", posted |-> FALSE, requestId |-> 0, out |-> "",
   code |-> -1, path |-> ""]

\* process.exit(code) after out was written to stdout
Exited(h, out, code, path) ==
  [h EXCEPT !.pc = "exited", !.out = out, !.code = code, !.path = path,
            !.server = FALSE, !.live = FALSE]

\* the promise requestApprovalFromWebview returns for a request of hook i
\* over: it is undecided and the session that asked for it has ended;
\* given: what the webview answered for this request id
NewRequest(i, over) ==
  [hook |-> i, over |-> over, state |-> "pending", given |-> "none",
   calls |-> 0]

\* resolve(value) of the promise of request id: only the first call settles it
Resolve(r, approved) ==
  IF r.state = "pending"
  THEN [r EXCEPT !.state = IF approved THEN "approved" ELSE "denied",
                 !.calls = @ + 1, !.over = FALSE]
  ELSE [r EXCEPT !.calls = @ + 1]

\* claudeProcess.stop(), or the CLI's exit, seen from the gateway: the
\* hooks and requests of the session now belong to a session that has ended
EndSession(hooks) ==
  [i \in 1..Len(hooks) |->
     IF hooks[i].pc = "exited" THEN hooks[i]
     ELSE [hooks[i] EXCEPT !.live = FALSE]]

\* the same for the requests: over marks an undecided request whose hook
\* was started by a session that has ended
EndRequests(reqs) ==
  [id \in 1..Len(reqs) |->
     IF reqs[id].state = "pending" THEN [reqs[id] EXCEPT !.over = TRUE]
     ELSE reqs[id]]

\* server.close() and the removal of the hook directory, seen from the hooks
\* that hold the port
CloseServer(hooks) ==
  [i \in 1..Len(hooks) |->
     IF hooks[i].pc = "exited" THEN hooks[i]
     ELSE [hooks[i] EXCEPT !.server = FALSE]]

\* the hooks whose stdin is not the object the CLI writes, or whose request
\* ended without the gateway's answer
FaultyHooks ==
  {i \in 1..Len(hook) :
     \/ hook[i].stdin # "object"
     \/ hook[i].path \in {"badresponse", "error", "timeout"}}

MayFail == Cardinality(FaultyHooks) + Cardinality(foreign) < MaxFaults

InitGate ==
  /\ approvalServer = FALSE
  /\ hookScript = FALSE
  /\ pendingApprovals = {}
  /\ approvalCounter = 0
  /\ req = <<>>
  /\ hook = <<>>
  /\ gRun = FALSE
  /\ foreign = {}

\* startProcess in askFirst mode when no CLI runs: ensureApprovalSetup starts
\* the server when there is none and writes the hook script with the server's
\* port, then the CLI is started with the settings file
EnsureApprovalSetup ==
  /\ ~gRun
  /\ gRun' = TRUE
  /\ approvalServer' = TRUE
  /\ hookScript' = TRUE
  /\ UNCHANGED <<pendingApprovals, approvalCounter, req, hook, foreign>>
  /\ UNCHANGED nonGateVars

\* process.stdin.on('end'): parse the input, pass safe tools, otherwise send
\* the POST; null parses and data.tool_name then throws outside any try
HookStdinEnd(h) ==
  IF h.stdin = "garbage" THEN Exited(h, "", 0, "badinput")
  ELSE IF h.stdin = "null" THEN Exited(h, "", 1, "crash")
  ELSE IF ToolNameOf(h) \in SafeTools THEN Exited(h, "", 0, "safe")
  ELSE [h EXCEPT !.pc = "wait"]

\* the CLI runs node approval-hook.js before a tool, writes its stdin and
\* closes it: the hook has exited or its request is on the way (an input
\* that is not the CLI's object is tried for the tools that need approval)
HookSpawn ==
  /\ gRun
  /\ hookScript
  /\ Len(hook) < MaxHooks
  /\ \E tool \in ToolNames,
        stdin \in (IF MayFail THEN StdinKinds ELSE {"object"}) :
       /\ stdin # "object" => tool \notin SafeTools
       /\ hook' = Append(hook, HookStdinEnd(NewHook(tool, stdin)))
  /\ UNCHANGED <<approvalServer, hookScript, pendingApprovals,
                 approvalCounter, req, gRun, foreign>>
  /\ UNCHANGED nonGateVars

\* the server's request handler for POST /approve with the hook's body:
\* handleApproval parses it and requestApprovalFromWebview registers the
\* resolver under a new request id
GatewayRequest(i) ==
  /\ hook[i].pc = "wait"
  /\ ~hook[i].posted
  /\ approvalServer
  /\ hook[i].server
  /\ approvalCounter' = approvalCounter + 1
  /\ pendingApprovals' = pendingApprovals \cup {approvalCounter'}
  /\ req' = Append(req, NewRequest(i, ~hook[i].live))
  /\ hook' = [hook EXCEPT ![i].posted = TRUE,
                          ![i].requestId = approvalCounter']
  /\ UNCHANGED <<approvalServer, hookScript, gRun, foreign>>
  /\ UNCHANGED nonGateVars

\* the bodies of such a POST that the hook never writes: text JSON.parse
\* rejects, and JSON without a tool input (formatDetail's catch then throws
\* on request.toolInput.substring)
BodyKinds == {"garbage", "noinput"}

\* the request handler for POST /approve with such a body: handleApproval
\* returns false for the first and rejects for the second, the decision
\* function is not called, and the answer is approved = false
ForeignPostOf(body) ==
  /\ approvalServer
  /\ MayFail
  /\ foreign' = foreign \cup {[body |-> body, id |-> 0,
                                 answer |-> DecisionOf(FALSE)]}
  /\ foreign' # foreign
  /\ UNCHANGED <<approvalServer, hookScript, pendingApprovals,
                 approvalCounter, req, hook, gRun>>
  /\ UNCHANGED nonGateVars

ForeignPost == \E body \in BodyKinds : ForeignPostOf(body)

\* a handler that calls the resolver the map holds first instead of the one
\* stored under requestId
HandleApprovalResponseOldest(requestId, approved) ==
  /\ approvalCounter > 0
  /\ IF requestId \in pendingApprovals
     THEN /\ req' = [id \in 1..Len(req) |->
                 IF id = requestId /\ \A k \in pendingApprovals : id <= k
                   THEN Resolve([req[id] EXCEPT !.given =
                                   DecisionOf(approved)], approved)
                 ELSE IF id = requestId
                   THEN [req[id] EXCEPT !.given = DecisionOf(approved)]
                 ELSE IF id \in pendingApprovals
                         /\ \A k \in pendingApprovals : id <= k
                   THEN Resolve(req[id], approved)
                 ELSE req[id]]
          /\ pendingApprovals' = pendingApprovals \ {requestId}
     ELSE UNCHANGED <<req, pendingApprovals>>
  /\ UNCHANGED <<approvalServer, hookScript, approvalCounter, hook, gRun,
                 foreign>>
  /\ UNCHANGED nonGateVars

\* handleApprovalResponse(requestId, approved)
HandleApprovalResponseOf(requestId, approved) ==
  /\ approvalCounter > 0
  /\ IF requestId \in pendingApprovals
     THEN /\ req' = [req EXCEPT ![requestId] =
                 Resolve([@ EXCEPT !.given = DecisionOf(approved)], approved)]
          /\ pendingApprovals' = pendingApprovals \ {requestId}
     ELSE UNCHANGED <<req, pendingApprovals>>
  /\ UNCHANGED <<approvalServer, hookScript, approvalCounter, hook, gRun, foreign>>
  /\ UNCHANGED nonGateVars

HandleApprovalResponse ==
  \E requestId \in 1..(approvalCounter + 1) :
    \E approved \in (IF requestId \in pendingApprovals THEN BOOLEAN
                     ELSE {FALSE}) :
      HandleApprovalResponseOf(requestId, approved)

\* a cleanup that also starts the request ids again
CleanupAndReset(reqs) ==
  /\ req' = [id \in 1..Len(reqs) |->
       IF id \in pendingApprovals THEN Resolve(reqs[id], FALSE)
       ELSE reqs[id]]
  /\ pendingApprovals' = {}
  /\ approvalServer' = FALSE
  /\ hookScript' = FALSE
  /\ approvalCounter' = 0
  /\ UNCHANGED foreign
  /\ UNCHANGED nonGateVars

\* cleanupApprovalSetup: deny what is pending, stop the server, remove the
\* hook directory
CleanupApprovalSetup(reqs) ==
  /\ req' = [id \in 1..Len(reqs) |->
       IF id \in pendingApprovals THEN Resolve(reqs[id], FALSE)
       ELSE reqs[id]]
  /\ pendingApprovals' = {}
  /\ approvalServer' = FALSE
  /\ hookScript' = FALSE
  /\ UNCHANGED <<approvalCounter, foreign>>
  /\ UNCHANGED nonGateVars

\* webviewView.onDidDispose: stop the CLI, then cleanupApprovalSetup (a
\* disposal that finds nothing to stop or clean up changes nothing)
OnDidDispose ==
  /\ gRun \/ approvalServer
  /\ gRun' = FALSE
  /\ hook' = CloseServer(EndSession(hook))
  /\ CleanupApprovalSetup(EndRequests(req))

\* the handlers that end the session and leave the gateway alone:
\* stopGeneration, newChat, handleModeChange (only if a CLI runs) and the
\* exit listener all stop or lose the CLI and post messages to the webview
StopOnly ==
  /\ gRun
  /\ gRun' = FALSE
  /\ hook' = EndSession(hook)
  /\ req' = EndRequests(req)
  /\ UNCHANGED <<approvalServer, hookScript, pendingApprovals,
                 approvalCounter, foreign>>
  /\ UNCHANGED nonGateVars

\* the response callback's 'end' with the gateway's body {approved}
HookResponse(i) ==
  /\ hook[i].pc = "wait"
  /\ hook[i].posted
  /\ req[hook[i].requestId].state # "pending"
  /\ hook' = [hook EXCEPT ![i] =
       IF req[hook[i].requestId].state = "approved"
       THEN Exited(@, DecisionOf(TRUE), 0, "approved")
       ELSE Exited(@, DecisionOf(FALSE), 0, "denied")]
  /\ UNCHANGED <<approvalServer, hookScript, pendingApprovals,
                 approvalCounter, req, gRun, foreign>>
  /\ UNCHANGED nonGateVars

\* the response callback's 'end' with a body JSON.parse rejects: whatever
\* answers on the port is not this gateway
HookBadResponse(i) ==
  /\ hook[i].pc = "wait"
  /\ ~hook[i].posted
  /\ ~hook[i].server
  /\ MayFail
  /\ hook' = [hook EXCEPT ![i] = Exited(@, "", 2, "badresponse")]
  /\ UNCHANGED <<approvalServer, hookScript, pendingApprovals,
                 approvalCounter, req, gRun, foreign>>
  /\ UNCHANGED nonGateVars

\* req.on('error')
HookError(i) ==
  /\ hook[i].pc = "wait"
  /\ MayFail
  /\ hook' = [hook EXCEPT ![i] = Exited(@, "", 2, "error")]
  /\ UNCHANGED <<approvalServer, hookScript, pendingApprovals,
                 approvalCounter, req, gRun, foreign>>
  /\ UNCHANGED nonGateVars

\* a timeout handler that exits as the safe-tool bypass does
HookTimeoutOpen(i) ==
  /\ hook[i].pc = "wait"
  /\ MayFail
  /\ hook' = [hook EXCEPT ![i] = Exited(@, "", 0, "timeout")]
  /\ UNCHANGED <<approvalServer, hookScript, pendingApprovals,
                 approvalCounter, req, gRun, foreign>>
  /\ UNCHANGED nonGateVars

\* req.on('timeout')
HookTimeout(i) ==
  /\ hook[i].pc = "wait"
  /\ MayFail
  /\ hook' = [hook EXCEPT ![i] = Exited(@, "", 2, "timeout")]
  /\ UNCHANGED <<approvalServer, hookScript, pendingApprovals,
                 approvalCounter, req, gRun, foreign>>
  /\ UNCHANGED nonGateVars

NextGate ==
  \/ EnsureApprovalSetup
  \/ HookSpawn
  \/ \E i \in 1..Len(hook) : GatewayRequest(i)
  \/ ForeignPost
  \/ HandleApprovalResponse
  \/ OnDidDispose
  \/ StopOnly
  \/ \E i \in 1..Len(hook) : HookResponse(i)
  \/ \E i \in 1..Len(hook) : HookBadResponse(i)
  \/ \E i \in 1..Len(hook) : HookError(i)
  \/ \E i \in 1..Len(hook) : HookTimeout(i)

(***************************************************************************)
(* The file change tracker: ChangeTracker (src/src/claudeCode.ts), the     *)
(* listeners that feed it (src/src/webview-provider.ts), the commands that *)
(* accept and reject (src/src/types.ts), and the files on disk, which the  *)
(* CLI's Edit and Write tools change in a process of their own.            *)
(* A content and a path are sequences of characters; a file that does not  *)
(* exist holds Missing.                                                    *)
(***************************************************************************)
Missing == <<"ENOENT">>
None == <<"none">>
Mixed == <<"mixed">>

Paths == {<<"/", "f">>, <<"/", "F">>}

\* what the Edit and Write tools leave in a file
Contents ==
  { <<>>,
    <<"a", "\n", "b", "\n", "a">> }

\* what a file may hold when the extension starts
InitialFiles == {<<"a">>}

\* content.split('\n')
RECURSIVE splitFrom(_, _, _)
splitFrom(content, i, line) ==
  IF i > Len(content) THEN <<line>>
  ELSE IF content[i] = "\n"
       THEN <<line>> \o splitFrom(content, i + 1, <<>>)
       ELSE splitFrom(content, i + 1, Append(line, content[i]))

split(content) == splitFrom(content, 1, <<>>)

\* lines.join('\n')
RECURSIVE join(_)
join(lines) ==
  IF lines = <<>> THEN <<>>
  ELSE IF Len(lines) = 1 THEN lines[1]
       ELSE lines[1] \o <<"\n">> \o join(Tail(lines))

toLowerCase(c) == IF c = "F" THEN "f" ELSE c

normalizePath(p) ==
  [i \in DOMAIN p |-> IF p[i] = "\\" THEN "/" ELSE toLowerCase(p[i])]

WorkspaceFolder == <<"/">>

resolveFilePath(filePath) ==
  IF Len(filePath) > 0 /\ filePath[1] = "/" THEN filePath
  ELSE WorkspaceFolder \o filePath

\* new vscode.Range(startLine, 0, endLine, endChar)
Range(startLine, endLine, endChar) ==
  [startLine |-> startLine, endLine |-> endLine, endChar |-> endChar]

Min(a, b) == IF a < b THEN a ELSE b

\* the two while loops of computeDiff; lines are counted from 0 in the
\* source and from 1 in a sequence
PrefixLen(beforeLines, afterLines) ==
  LET minLen == Min(Len(beforeLines), Len(afterLines))
  IN CHOOSE k \in 0..minLen :
       /\ \A j \in 1..k : beforeLines[j] = afterLines[j]
       /\ k < minLen => beforeLines[k + 1] # afterLines[k + 1]

\* the suffix loop were it to run over the lines of the common prefix too
SuffixLenOverlapping(beforeLines, afterLines) ==
  LET minLen == Min(Len(beforeLines), Len(afterLines))
      lim == minLen
      same(j) == beforeLines[Len(beforeLines) - j]
                   = afterLines[Len(afterLines) - j]
  IN CHOOSE k \in 0..lim :
       /\ \A j \in 0..(k - 1) : same(j)
       /\ k < lim => ~same(k)

SuffixLen(beforeLines, afterLines) ==
  LET minLen == Min(Len(beforeLines), Len(afterLines))
      lim == minLen - PrefixLen(beforeLines, afterLines)
      same(j) == beforeLines[Len(beforeLines) - j]
                   = afterLines[Len(afterLines) - j]
  IN CHOOSE k \in 0..lim :
       /\ \A j \in 0..(k - 1) : same(j)
       /\ k < lim => ~same(k)

computeDiff(beforeLines, afterLines) ==
  IF Len(beforeLines) = 0
  THEN [added |-> IF Len(afterLines) > 0
                  THEN <<Range(0, Len(afterLines) - 1,
                               Len(afterLines[Len(afterLines)]))>>
                  ELSE <<>>,
        modified |-> <<>>]
  ELSE
    LET prefixLen == PrefixLen(beforeLines, afterLines)
        suffixLen == SuffixLen(beforeLines, afterLines)
        afterChangeStart == prefixLen
        afterChangeEnd == Len(afterLines) - suffixLen
        beforeChangeLen == (Len(beforeLines) - suffixLen) - prefixLen
        afterChangeLen == afterChangeEnd - afterChangeStart
        overlapLen == Min(beforeChangeLen, afterChangeLen)
        lineRange(line) == Range(line, line, Len(afterLines[line + 1]))
    IN IF afterChangeLen <= 0 /\ beforeChangeLen <= 0
       THEN [added |-> <<>>, modified |-> <<>>]
       ELSE [modified |-> [i \in 1..overlapLen |->
                             lineRange(afterChangeStart + i - 1)],
             added |-> [i \in 1..(afterChangeLen - overlapLen) |->
                          lineRange(afterChangeStart + overlapLen + i - 1)]]

\* mergeRanges were it to push every new range
mergeRangesAll(existing, newRanges) == existing \o newRanges

RECURSIVE mergeRanges(_, _)
mergeRanges(existing, newRanges) ==
  IF newRanges = <<>> THEN existing
  ELSE LET r == Head(newRanges)
           some == \E i \in 1..Len(existing) :
                     /\ existing[i].startLine = r.startLine
                     /\ existing[i].endLine = r.endLine
       IN mergeRanges(IF some THEN existing ELSE Append(existing, r),
                      Tail(newRanges))

\* index of the first key of this.trackedFiles with that normal form, 0 for
\* undefined
findTrackedKey(normalizedPath) ==
  IF \E i \in 1..Len(trackedFiles) :
       normalizePath(trackedFiles[i].key) = normalizedPath
  THEN CHOOSE i \in 1..Len(trackedFiles) :
         /\ normalizePath(trackedFiles[i].key) = normalizedPath
         /\ \A j \in 1..(i - 1) :
              normalizePath(trackedFiles[j].key) # normalizedPath
  ELSE 0

\* this.trackedFiles.get(filePath): the index of exactly that key, or 0
TrackedAt(filePath) ==
  IF \E i \in 1..Len(trackedFiles) : trackedFiles[i].key = filePath
  THEN CHOOSE i \in 1..Len(trackedFiles) : trackedFiles[i].key = filePath
  ELSE 0

Without(seq, k) == [i \in 1..(Len(seq) - 1) |->
                      IF i < k THEN seq[i] ELSE seq[i + 1]]

PendingFor(filePath) == {e \in pendingEdits : e.filePath = filePath}

InitTrackOn(files) ==
  /\ disk = files
  /\ edits = <<>>
  /\ stdoutQ = <<>>
  /\ pendingEdits = {}
  /\ trackedFiles = <<>>
  /\ shown = "none"
  /\ wrote = "none"
  /\ again = FALSE
  /\ firstSnap = [p \in Paths |-> None]

InitTrack == InitTrackOn([p \in Paths |-> Missing])

\* ---- the CLI ----

\* the CLI writes the assistant message that holds an Edit or Write block
CliAnnounce ==
  /\ Len(edits) < MaxEdits
  /\ Len(stdoutQ) < MaxQueue
  /\ \E p \in Paths :
       /\ edits' = Append(edits, [path |-> p, st |-> "announced",
                                  pre |-> None])
       /\ stdoutQ' = Append(stdoutQ, <<"assistant", Len(edits) + 1, p>>)
  /\ shown' = "none" /\ wrote' = "none" /\ again' = FALSE
  /\ UNCHANGED <<disk, pendingEdits, trackedFiles, firstSnap>>
  /\ UNCHANGED nonTrackVars

\* whether the host has yet to hear of an invocation
Unheard(i) == \E k \in 1..Len(stdoutQ) :
                stdoutQ[k][1] = "assistant" /\ stdoutQ[k][2] = i

\* the CLI runs the tool: the file gets a new content, or the tool fails
\* and leaves it as it is; pre keeps what the tool found for as long as the
\* host has not heard of the invocation
CliExec(i) ==
  /\ edits[i].st = "announced"
  /\ \E c \in Contents \cup {disk[edits[i].path]} :
       disk' = [disk EXCEPT ![edits[i].path] = c]
  /\ edits' = [edits EXCEPT ![i].st = "done",
                             ![i].pre = IF Unheard(i) THEN disk[edits[i].path]
                                        ELSE None]
  /\ shown' = "none" /\ wrote' = "none" /\ again' = FALSE
  /\ UNCHANGED <<stdoutQ, pendingEdits, trackedFiles, firstSnap>>
  /\ UNCHANGED nonTrackVars

\* the CLI writes the user message that holds the tool's result
CliReport(i) ==
  /\ edits[i].st = "done"
  /\ Len(stdoutQ) < MaxQueue
  /\ edits' = [edits EXCEPT ![i].st = "reported", ![i].path = <<>>]
  /\ stdoutQ' = Append(stdoutQ, <<"user", i, <<>> >>)
  /\ shown' = "none" /\ wrote' = "none" /\ again' = FALSE
  /\ UNCHANGED <<disk, pendingEdits, trackedFiles, firstSnap>>
  /\ UNCHANGED nonTrackVars

\* ---- the extension host ----

\* snapshotFile(toolUseId, filePath) up to its first await
SnapshotFile(toolUseId, filePath) ==
  LET absPath == resolveFilePath(filePath)
      beforeLines == IF disk[absPath] = Missing THEN <<>>
                     ELSE split(disk[absPath])
  IN /\ pendingEdits' = {e \in pendingEdits : e.id # toolUseId}
                          \cup {[id |-> toolUseId, filePath |-> absPath,
                                 beforeLines |-> beforeLines]}
     /\ firstSnap' = IF firstSnap[absPath] = None
                     THEN [firstSnap EXCEPT ![absPath] = disk[absPath]]
                     ELSE firstSnap
     /\ UNCHANGED trackedFiles

\* the 'assistant' listener on an Edit or Write block with a file_path
AssistantEvent ==
  /\ stdoutQ # <<>>
  /\ Head(stdoutQ)[1] = "assistant"
  /\ stdoutQ' = Tail(stdoutQ)
  /\ SnapshotFile(Head(stdoutQ)[2], Head(stdoutQ)[3])
  /\ edits' = [edits EXCEPT ![Head(stdoutQ)[2]].pre = None]
  /\ shown' = "none"
  /\ wrote' = "none"
  /\ again' = FALSE
  /\ UNCHANGED disk
  /\ UNCHANGED nonTrackVars

\* onToolResult were it to take the before-content of every result
OnToolResultLatest(toolUseId) ==
  IF \A e \in pendingEdits : e.id # toolUseId
  THEN UNCHANGED <<pendingEdits, trackedFiles>>
  ELSE
    LET pending == CHOOSE e \in pendingEdits : e.id = toolUseId
        filePath == pending.filePath
        beforeLines == pending.beforeLines
    IN /\ pendingEdits' = pendingEdits \ {pending}
       /\ IF disk[filePath] = Missing
          THEN UNCHANGED trackedFiles
          ELSE
            LET afterLines == split(disk[filePath])
                diff == computeDiff(beforeLines, afterLines)
                k == TrackedAt(filePath)
            IN IF k # 0
               THEN trackedFiles' =
                      [trackedFiles EXCEPT
                         ![k].added = mergeRanges(@, diff.added),
                         ![k].modified = mergeRanges(@, diff.modified),
                         ![k].beforeContent = join(beforeLines)]
               ELSE trackedFiles' =
                      Append(trackedFiles,
                             [key |-> filePath,
                              added |-> diff.added,
                              modified |-> diff.modified,
                              beforeContent |-> join(beforeLines)])

\* onToolResult(toolUseId) up to its first await
OnToolResult(toolUseId) ==
  IF \A e \in pendingEdits : e.id # toolUseId
  THEN UNCHANGED <<pendingEdits, trackedFiles>>
  ELSE
    LET pending == CHOOSE e \in pendingEdits : e.id = toolUseId
        filePath == pending.filePath
        beforeLines == pending.beforeLines
    IN /\ pendingEdits' = pendingEdits \ {pending}
       /\ IF disk[filePath] = Missing
          THEN UNCHANGED trackedFiles
          ELSE
            LET afterLines == split(disk[filePath])
                diff == computeDiff(beforeLines, afterLines)
                k == TrackedAt(filePath)
            IN IF k # 0
               THEN trackedFiles' =
                      [trackedFiles EXCEPT
                         ![k].added = mergeRanges(@, diff.added),
                         ![k].modified = mergeRanges(@, diff.modified)]
               ELSE trackedFiles' =
                      Append(trackedFiles,
                             [key |-> filePath,
                              added |-> diff.added,
                              modified |-> diff.modified,
                              beforeContent |-> join(beforeLines)])

\* the 'user' listener on a tool_result block
UserEvent ==
  /\ stdoutQ # <<>>
  /\ Head(stdoutQ)[1] = "user"
  /\ stdoutQ' = Tail(stdoutQ)
  /\ OnToolResult(Head(stdoutQ)[2])
  /\ shown' = "none"
  /\ wrote' = "none"
  /\ again' = FALSE
  /\ UNCHANGED <<disk, edits, firstSnap>>
  /\ UNCHANGED nonTrackVars

\* the 'user' listener on a tool_result block whose tool_use_id it has
\* handled before, while some file is tracked
RepeatedResult(i) ==
  /\ edits[i].st = "reported"
  /\ trackedFiles # <<>>
  /\ \A k \in 1..Len(stdoutQ) : stdoutQ[k][2] # i
  /\ OnToolResult(i)
  /\ again' = TRUE
  /\ shown' = "none"
  /\ wrote' = "none"
  /\ UNCHANGED <<disk, edits, stdoutQ, firstSnap>>
  /\ UNCHANGED nonTrackVars

\* what is known of the first snapshot of a path once its entry is deleted
Forget(key) ==
  [firstSnap EXCEPT ![key] = IF PendingFor(key) = {} THEN None ELSE Mixed]

\* neusis-code.acceptFileChanges: acceptFile(filePath)
AcceptFile(filePath) ==
  LET key == findTrackedKey(normalizePath(filePath))
  IN /\ shown' = "none"
     /\ wrote' = "none"
     /\ again' = FALSE
     /\ IF key = 0
        THEN UNCHANGED <<trackedFiles, firstSnap>>
        ELSE /\ trackedFiles' = Without(trackedFiles, key)
             /\ firstSnap' = Forget(trackedFiles[key].key)
     /\ UNCHANGED <<disk, edits, stdoutQ, pendingEdits>>
     /\ UNCHANGED nonTrackVars

\* what fs.writeFileSync may do: write, fail before it opens the file, or
\* fail after it has truncated it
WriteOutcomes == {"ok", "EACCES", "ENOSPC"}

\* rejectFile were it to drop the entry whether or not the write went through
RejectFileDropping(filePath, outcome) ==
  LET key == findTrackedKey(normalizePath(filePath))
  IN /\ key # 0
     /\ LET tracked == trackedFiles[key]
        IN IF outcome = "ok"
           THEN /\ disk' = [disk EXCEPT ![tracked.key] = tracked.beforeContent]
                /\ trackedFiles' = Without(trackedFiles, key)
                /\ firstSnap' = Forget(tracked.key)
                /\ shown' = "none"
                /\ wrote' = outcome
                /\ again' = FALSE
           ELSE /\ disk' = IF outcome = "ENOSPC" /\ disk[tracked.key] # Missing
                           THEN [disk EXCEPT ![tracked.key] = <<>>]
                           ELSE disk
                /\ shown' = "Failed to revert file"
                /\ wrote' = outcome
                /\ again' = FALSE
                /\ trackedFiles' = Without(trackedFiles, key)
                /\ firstSnap' = Forget(tracked.key)
     /\ UNCHANGED <<edits, stdoutQ, pendingEdits>>
     /\ UNCHANGED nonTrackVars

\* neusis-code.rejectFileChanges: rejectFile(filePath) up to its first await
RejectFileOf(filePath, outcome) ==
  LET key == findTrackedKey(normalizePath(filePath))
  IN /\ key # 0
     /\ LET tracked == trackedFiles[key]
        IN IF outcome = "ok"
           THEN /\ disk' = [disk EXCEPT ![tracked.key] = tracked.beforeContent]
                /\ trackedFiles' = Without(trackedFiles, key)
                /\ firstSnap' = Forget(tracked.key)
                /\ shown' = "none"
                /\ wrote' = outcome
                /\ again' = FALSE
           ELSE /\ disk' = IF outcome = "ENOSPC" /\ disk[tracked.key] # Missing
                           THEN [disk EXCEPT ![tracked.key] = <<>>]
                           ELSE disk
                /\ shown' = "Failed to revert file"
                /\ wrote' = outcome
                /\ again' = FALSE
                /\ UNCHANGED <<trackedFiles, firstSnap>>
     /\ UNCHANGED <<edits, stdoutQ, pendingEdits>>
     /\ UNCHANGED nonTrackVars

RejectFile == \E filePath \in Paths : \E outcome \in WriteOutcomes :
                RejectFileOf(filePath, outcome)

\* newChat and dispose: the process is stopped and clearDecorations() runs
ClearDecorations ==
  /\ trackedFiles # <<>> \/ pendingEdits # {} \/ stdoutQ # <<>>
  /\ trackedFiles' = <<>>
  /\ pendingEdits' = {}
  /\ stdoutQ' = <<>>
  /\ edits' = [i \in 1..Len(edits) |->
                 [path |-> <<>>, st |-> "reported", pre |-> None]]
  /\ firstSnap' = [p \in Paths |-> None]
  /\ shown' = "none"
  /\ wrote' = "none"
  /\ again' = FALSE
  /\ UNCHANGED disk
  /\ UNCHANGED nonTrackVars

NextTrack ==
  \/ CliAnnounce
  \/ \E i \in 1..Len(edits) : CliExec(i)
  \/ \E i \in 1..Len(edits) : CliReport(i)
  \/ AssistantEvent
  \/ UserEvent
  \/ \E i \in 1..Len(edits) : RepeatedResult(i)
  \/ \E filePath \in Paths : AcceptFile(filePath)
  \/ RejectFile
  \/ ClearDecorations

(***************************************************************************)
(* ChangeTracker.computeDiff (src/src/claudeCode.ts) called on its own.    *)
(***************************************************************************)
\* the lines a file is made of
FileLines == {<<"a">>, <<"b">>}

RECURSIVE SeqsUpTo(_, _)
SeqsUpTo(S, n) ==
  IF n = 0 THEN {<<>>}
  ELSE LET shorter == SeqsUpTo(S, n - 1)
       IN shorter \cup {Append(q, x) : q \in shorter, x \in S}

LineSeqs == SeqsUpTo(FileLines, MaxLines)

InitDiff ==
  /\ dBefore = <<>>
  /\ dAfter = <<>>
  /\ dOut = <<>>

CallComputeDiff ==
  /\ dOut = <<>>
  /\ dOut' = <<computeDiff(dBefore, dAfter)>>
  /\ UNCHANGED <<dBefore, dAfter>>
  /\ UNCHANGED nonDiffVars

NextDiff == CallComputeDiff

(***************************************************************************)
(* Specifications.                                                         *)
(***************************************************************************)
Init ==
  /\ InitProc /\ InitMgr /\ InitFrm /\ InitView /\ InitGate /\ InitTrack
  /\ InitDiff

SpecProc == Init /\ [][NextProc]_vars

\* the event loop runs every timer that is due and every continuation of a
\* settled promise
HostFairness == WF_vars(SendTimer) /\ WF_vars(StartProcessAskFirst)

SpecProcLive == Init /\ [][NextProc]_vars /\ HostFairness

\* the same with the end of each subprocess's output
NextProcEnd == NextProc \/ ChildClose

SpecProcEnd == Init /\ [][NextProcEnd]_vars /\ HostFairness

SpecMgr == Init /\ [][NextMgr]_vars

\* the framers on every stream of at most MaxStream bytes
InitFramer ==
  /\ InitProc
  /\ InitMgr
  /\ fRest \in Streams
  /\ fFed = <<>>
  /\ fText = <<>>
  /\ fBuf = <<>>
  /\ fOut = <<>>
  /\ fBufM = <<>>
  /\ fOutM = <<>>
  /\ InitView
  /\ InitGate
  /\ InitTrack
  /\ InitDiff

SpecFramer == InitFramer /\ [][NextFrm]_vars

SpecView == Init /\ [][NextView]_vars

SpecGate == Init /\ [][NextGate]_vars

\* the tracker, with /f there and /F not when the extension starts
InitTracker ==
  /\ InitProc /\ InitMgr /\ InitFrm /\ InitView /\ InitGate
  /\ \E c \in InitialFiles :
       InitTrackOn([p \in Paths |-> IF p = <<"/", "f">> THEN c ELSE Missing])
  /\ InitDiff

SpecTrack == InitTracker /\ [][NextTrack]_vars

\* computeDiff on every pair of line sequences of at most MaxLines lines
InitDiffer ==
  /\ InitProc /\ InitMgr /\ InitFrm /\ InitView /\ InitGate /\ InitTrack
  /\ dBefore \in LineSeqs
  /\ dAfter \in LineSeqs
  /\ dOut = <<>>

SpecDiff == InitDiffer /\ [][NextDiff]_vars

(***************************************************************************)
(* Claims about the supervisors.                                           *)
(***************************************************************************)
\* C1: one supervisor owns at most one live subprocess: every live
\* subprocess it spawned is either the one it holds the reference to or has
\* been sent the termination signal, and no two live subprocesses are both
\* unsignalled.
C1_SingleOwner ==
  /\ \A p \in Children :
       child[p].st = "live" => (proc = p \/ child[p].killed)
  /\ \A p, q \in Children :
       (child[p].st = "live" /\ ~child[p].killed /\
        child[q].st = "live" /\ ~child[q].killed) => p = q

\* C2: once a session attempt has ended (its subprocess closed or failed to
\* spawn) the host has been delivered exactly one terminal notification for
\* it, onDone or onError, never both.
C2_OneTerminal ==
  \A c \in ChildrenM :
    mChild[c].st = "closed" => mAtt[c].done + mAtt[c].error = 1

\* C3: after the terminal exit/error event of a session attempt no further
\* event of that attempt is emitted.
C3_NoEventAfterTerminal == \A p \in Children : ~att[p].late

\* C4: an exit code that is neither 0 nor null, of a subprocess the host did
\* not stop, is reported to the host as an error; an exit with code 0 or
\* null of a subprocess the host stopped is not.
C4_ExitReport ==
  \A c \in ChildrenM :
    mChild[c].st = "closed" =>
      /\ (mAtt[c].nonzero /\ ~mChild[c].killed) => mAtt[c].error >= 1
      /\ (~mAtt[c].nonzero /\ mChild[c].killed) => mAtt[c].error = 0

\* C5: a send attempted while no subprocess is attached or its stdin is not
\* writable is reported to the caller and never reported as sent.
C5_SendReported ==
  mLastSend.outcome = "written" => mLastSend.writable

\* C6: every record written to stdin carries the session id of the most
\* recent system/init message of the current session attempt, or the
\* sentinel when there was none.
C6_SessionIdOfAttempt ==
  lastSend.outcome = "written" => lastSend.sid = lastSend.expect

(***************************************************************************)
(* Claims about the line framers.                                          *)
(***************************************************************************)
\* the trimmed non-empty lines that the text has completed with a newline
NonEmpty(l) == l # <<>>
CompletedLines(text) ==
  LET lines == SplitNL(text)
  IN  SelectSeq([i \in 1..(Len(lines) - 1) |-> TrimLine(lines[i])], NonEmpty)

\* the messages of a sequence of events
MsgsOf(events) == [i \in 1..Len(events) |-> events[i].msg]

\* C7: feeding the bytes read so far in chunks has yielded the same
\* sequence of decoded messages as feeding them whole, whatever the cuts.
C7_ChunkingInvariant ==
  fOut = HandleStdout(<<>>, ToStringUtf8(fFed), SessionSentinel, "idle").events

\* C8 (as the code has it): a complete non-empty line that is not valid
\* JSON is never fatal.  ClaudeProcess routes exactly the valid lines, in
\* order, also those after a non-JSON line, and emits no event for the
\* non-JSON line; ClaudeCodeManager hands every line to the host, the
\* non-JSON ones as text events carrying the trimmed line.
C8_JunkLineNotFatal ==
  LET done == CompletedLines(fText)
  IN  /\ MsgsOf(fOut) = SelectSeq(done, ParseOk)
      /\ MsgsOf(fOutM) = done
      /\ \A i \in 1..Len(fOutM) : fOutM[i].ev = "text" <=> ~ParseOk(done[i])

\* C8 witness: a non-JSON line and a later valid line have both been
\* completed; ClaudeProcess has routed the valid line last and
\* ClaudeCodeManager has handed the non-JSON line on as a text event.
C8_JunkThenValid ==
  LET done == CompletedLines(fText)
  IN  \E i, j \in 1..Len(done) :
        /\ i < j
        /\ ~ParseOk(done[i])
        /\ ParseOk(done[j])
        /\ fOut # <<>>
        /\ fOut[Len(fOut)].msg = done[j]
        /\ Len(fOutM) >= i
        /\ fOutM[i] = [ev |-> "text", msg |-> done[i]]

\* C8 (as stated): every complete non-empty line that is not valid JSON is
\* surfaced by ClaudeProcess as a text event carrying the trimmed line.
C8_JunkLineSurfaced ==
  LET done == CompletedLines(fText)
  IN  \A i \in 1..Len(done) :
        ~ParseOk(done[i]) =>
          \E j \in 1..Len(fOut) : fOut[j] = [ev |-> "text", msg |-> done[i]]

(***************************************************************************)
(* Claims about the transcript.                                            *)
(***************************************************************************)
\* the content blocks of all messages of a transcript, in order
RECURSIVE BlocksOf(_)
BlocksOf(msgs) ==
  IF msgs = <<>> THEN <<>> ELSE Head(msgs).content \o BlocksOf(Tail(msgs))

\* exactly one of result and error is set
OneOutcome(b) == (b.result # Undef) # (b.error # Undef)

\* C9: once a text_delta of the open content block has been handled, the
\* text block it was written to (the last block of the last assistant
\* message) holds the concatenation of exactly the deltas of that block
\* index, in order, whatever blocks were streamed before it in the turn
\* (as long as no result or text event has contributed to the text and the
\* turn has had no abort and no event outside the order of a reply).
C9_TextIsConcatOfDeltas ==
  (/\ vLast = "text_delta"
   /\ ~sTurn.anomaly
   /\ \A i \in 1..Len(vTextBuf) : vTextBuf[i][1] = "delta") =>
    LET content == vMessages[Len(vMessages)].content
    IN  /\ content # <<>>
        /\ content[Len(content)].type = "text"
        /\ content[Len(content)].text = sOpen.text

\* C10: every tool block a tool_result has reached, in the webview and in
\* the provider's mirror, has exactly one of result and error set, and in
\* the webview is no longer streaming.
C10_ToolResultSettled ==
  /\ \A i \in 1..Len(BlocksOf(vMessages)) :
       LET b == BlocksOf(vMessages)[i]
       IN  (IsTool(b) /\ b.id \in vGot) => (OneOutcome(b) /\ ~b.isStreaming)
  /\ \A i \in 1..Len(tTools) :
       tTools[i].id \in tGot => OneOutcome(tTools[i])
  /\ \A i \in 1..Len(BlocksOf(tMessages)) :
       LET b == BlocksOf(tMessages)[i]
       IN  (IsTool(b) /\ b.id \in tGot) => OneOutcome(b)

\* C11: a tool id occurs in at most one tool block: of a turn of the
\* webview's transcript, of the provider's current tool blocks and of a turn
\* of the provider's transcript, whether a content_block_start or an assistant
\* snapshot delivered the id first.
C11_OneBlockPerId ==
  /\ \A m \in 1..Len(vMessages) :
        \A i, j \in 1..Len(vMessages[m].content) :
          LET b == vMessages[m].content[i]
              c == vMessages[m].content[j]
          IN  (IsTool(b) /\ IsTool(c) /\ b.id = c.id) => i = j
  /\ \A i, j \in 1..Len(tTools) : tTools[i].id = tTools[j].id => i = j
  /\ \A m \in 1..Len(tMessages) :
        \A i, j \in 1..Len(tMessages[m].content) :
          LET b == tMessages[m].content[i]
              c == tMessages[m].content[j]
          IN  (b.type = "tool_use" /\ c.type = "tool_use" /\ b.id = c.id)
                => i = j

\* the value JSON.parse gave for the longest prefix of the fragments that is
\* valid JSON, the empty object when no prefix is
LastParsedInput(pieces) ==
  LET ok == {n \in 0..Len(pieces) : InputParses(SubSeq(pieces, 1, n))}
  IN  IF ok = {} THEN <<>>
      ELSE SubSeq(pieces, 1, CHOOSE n \in ok : \A k \in ok : k <= n)

ToolsOf(blocks) == SelectSeq(blocks, IsTool)

\* the tool block of id among tools keeps the result and error it has in before
KeepsOutcome(before, tools, id) ==
  \A i \in 1..Len(before), j \in 1..Len(tools) :
    (before[i].id = id /\ tools[j].id = id) =>
      /\ tools[j].result = before[i].result
      /\ tools[j].error = before[i].error

\* C13: when an assistant snapshot that contains tool blocks is reconciled,
\* the turn's tool blocks afterwards are the snapshot's tool blocks, and a
\* tool id present before and in the snapshot keeps the result and error it
\* had, in the webview's transcript and in the provider's tracked blocks.
C13_SnapshotToolsWin ==
  [][\A S \in (SUBSET (1..Len(sDone))) \ {{}} :
       LET snapshot == ToolsOf(SnapshotContent(SubAt(sDone, S)))
           ids == [i \in 1..Len(snapshot) |-> snapshot[i].id]
           before == ToolsOf(LastAssistantBlocks(vMessages))
           after == ToolsOf(LastAssistantBlocks(vMessages'))
       IN  (EvAssistantOf(S) /\ snapshot # <<>>) =>
             /\ [i \in 1..Len(after) |-> after[i].id] = ids
             /\ [i \in 1..Len(tTools') |-> tTools'[i].id] = ids
             /\ \A i \in 1..Len(ids) :
                   /\ KeepsOutcome(before, after, ids[i])
                   /\ KeepsOutcome(tTools, tTools', ids[i])]_vars

\* the tool block b is among tools with its id, input, result and error
StillHeld(b, tools) ==
  \E j \in 1..Len(tools) :
    /\ tools[j].id = b.id
    /\ tools[j].input = b.input
    /\ tools[j].result = b.result
    /\ tools[j].error = b.error

\* C14: when an assistant snapshot that holds only text is reconciled, every
\* tool block the turn held before is still held afterwards with its id,
\* input, result and error, in the webview's transcript and in the provider's
\* tracked blocks, and the snapshot's text blocks are text blocks of the
\* webview's turn and its text is the provider's tracked text.
C14_TextSnapshotKeepsTools ==
  [][\A S \in (SUBSET (1..Len(sDone))) \ {{}} :
       LET snapshot == SnapshotContent(SubAt(sDone, S))
           before == ToolsOf(LastAssistantBlocks(vMessages))
           content == LastAssistantBlocks(vMessages')
       IN  (EvAssistantOf(S) /\ ToolsOf(snapshot) = <<>>) =>
             /\ \A i \in 1..Len(before) :
                   StillHeld(before[i], ToolsOf(content))
             /\ \A i \in 1..Len(tTools) : StillHeld(tTools[i], tTools')
             /\ Len(tTools') = Len(tTools)
             /\ \A i \in 1..Len(snapshot) :
                   \E j \in 1..Len(content) : content[j] = snapshot[i]
             /\ JoinTexts(snapshot) # <<>> => tText' = JoinTexts(snapshot)]_vars

\* C15: when text deltas have reached the turn, a result event changes
\* neither the turn's blocks in the webview nor the text the provider
\* tracks: it overwrites no text and adds no text block.
C15_ResultAfterStreamIgnored ==
  [][(EvResult /\ sTurn.deltas) =>
       /\ vMessages' = vMessages
       /\ tText' = tText]_vars

\* the ids of the tool blocks among blocks, in order
ToolIdsOf(blocks) ==
  [i \in 1..Len(ToolsOf(blocks)) |-> ToolsOf(blocks)[i].id]

\* the ids of ids occur once each in the sequence seq and no other does
ExactlyOnce(seq, ids) ==
  /\ {seq[i] : i \in 1..Len(seq)} = ids
  /\ Len(seq) = Cardinality(ids)

\* C16: a turn of one API message ends, whose reply arrived in the protocol's
\* order through the token stream with or without snapshots and a result
\* event (the last event, carrying the reply's text), or through the result
\* event alone.  The final transcript, of the
\* webview and of the provider, ends with one assistant turn after the
\* prompt, whose text content is the reply's text once and whose tool blocks
\* are the reply's tool invocations once each.
C16_ChannelsConverge ==
  [][LET reply == SnapshotContent(sDone)
         text == IF reply # <<>> THEN JoinTexts(reply) ELSE sTurn.result
         tools == {reply[i].id : i \in {k \in 1..Len(reply) : IsTool(reply[k])}}
         live == vMessages'[Len(vMessages')]
         kept == tMessages'[Len(tMessages')]
     IN  (/\ ViewDone
          /\ ~sTurn.multi /\ ~sTurn.anomaly
          /\ sOpen = NoBlock
          /\ sTurn.ended => vLast = "result"
          /\ (sTurn.ended /\ reply # <<>>) => sTurn.result = text
          /\ ~IsBlankText(text) \/ tools # {}) =>
           /\ live.role = "assistant"
           /\ vMessages'[Len(vMessages') - 1].role = "user"
           /\ JoinTexts(live.content) = text
           /\ ExactlyOnce(ToolIdsOf(live.content), tools)
           /\ kept.role = "assistant"
           /\ tMessages'[Len(tMessages') - 1].role = "user"
           /\ JoinTexts(kept.content) = text
           /\ ExactlyOnce(ToolIdsOf(kept.content), tools)]_vars

\* C17: after a user wire message whose content holds a tool_result for the
\* id of a tool block of the current turn, that block is no longer streaming
\* and has the content as its result, or as its error when is_error is set.
C17_UserMessageSettlesTool ==
  [][\A id \in ToolIds, isError \in BOOLEAN :
       \A resultText \in ResultContents(id) :
         LET after == ToolsOf(LastAssistantBlocks(vMessages'))
         IN  (/\ EvUserOf(id, isError, resultText)
              /\ id \in IdsOf(ToolsOf(LastAssistantBlocks(vMessages)))) =>
               \A i \in 1..Len(after) :
                 after[i].id = id =>
                   /\ ~after[i].isStreaming
                   /\ IF isError
                      THEN after[i].error =
                             (IF resultText # <<>> THEN resultText
                              ELSE ToolErrorText)
                      ELSE after[i].result = resultText]_vars

\* the ids of all tool blocks of the transcript msgs
AllToolIds(msgs) ==
  UNION {IdsOf(ToolsOf(msgs[m].content)) : m \in 1..Len(msgs)}

\* C18: a tool_result event whose tool_use_id is the id of no tool block
\* leaves the transcript as it was, of the webview and of the provider: no
\* turn is added and no block is added or changed, whatever the last turn is.
C18_StrayResultDropped ==
  [][\A id \in ToolIds \cup {StrayId}, isError \in BOOLEAN :
       \A resultText \in ResultContents(id) :
         (/\ EvToolResultOf(id, isError, resultText)
          /\ id \notin AllToolIds(vMessages)
          /\ id \notin IdsOf(tTools)) =>
           /\ vMessages' = vMessages
           /\ tMessages' = tMessages
           /\ tTools' = tTools]_vars

\* C19: an abort leaves every turn and every block of the transcript as it
\* was, in the webview and in the provider, and leaves the webview's text
\* buffer and tool-input buffers empty.
C19_AbortKeepsTranscript ==
  [][ViewAbort =>
       /\ vMessages' = vMessages
       /\ tMessages' = tMessages
       /\ vTextBuf' = <<>>
       /\ DOMAIN vToolBufs' = {}]_vars

\* the turn was aborted while a tool block was streaming its input and text
\* had been streamed: both are still in the transcript and the buffers are
\* empty
C19_AbortedMidTool ==
  /\ vLast = "aborted"
  /\ sOpen.type = "tool_use"
  /\ sOpen.input # <<>>
  /\ vTextBuf = <<>>
  /\ DOMAIN vToolBufs = {}
  /\ \E i \in 1..Len(LastAssistantBlocks(vMessages)) :
        LET b == LastAssistantBlocks(vMessages)[i]
        IN  IsTool(b) /\ b.isStreaming
  /\ \E i \in 1..Len(LastAssistantBlocks(vMessages)) :
        LET b == LastAssistantBlocks(vMessages)[i]
        IN  ~IsTool(b) /\ b.text # <<>>


\* what the hook's exit tells the CLI: exit 0 lets the tool run unless the
\* decision written to stdout is deny
SignalsAllow(h) == h.pc = "exited" /\ h.code = 0 /\ h.out # "deny"

\* C20: a hook that was asked about a tool off the safe-tool list signals
\* allow only if the gateway answered its request with approved = true; on
\* every other path (timeout, connection error, non-parseable response,
\* non-parseable hook input, denial) the tool is not allowed
C20_AllowOnlyIfApproved ==
  \A i \in 1..Len(hook) :
    (hook[i].tool \notin SafeTools /\ SignalsAllow(hook[i]))
      => /\ hook[i].posted
         /\ req[hook[i].requestId].state = "approved"

\* the approvals of the running session that are still pending
PendingNow ==
  {id \in 1..Len(req) : ~req[id].over /\ req[id].state = "pending"}

\* C21: a step that ends the running session (session end, panel disposal,
\* stop generation, new chat, permission-mode change) resolves every
\* still-pending approval of that session as denied and removes it from
\* pendingApprovals
C21_TeardownDeniesPending ==
  [][(gRun /\ ~gRun') =>
       \A id \in PendingNow :
         req'[id].state = "denied" /\ id \notin pendingApprovals']_vars

\* C22 as stated: a hook whose request timed out has written a decision
\* object with permissionDecision deny and has exited with code 0
C22_TimeoutWritesDeny ==
  \A i \in 1..Len(hook) :
    hook[i].path = "timeout" => hook[i].out = "deny" /\ hook[i].code = 0

\* C22: a hook whose request timed out has written no decision object and
\* has exited with code 2, so it does not signal allow
C22_TimeoutExitsTwo ==
  \A i \in 1..Len(hook) :
    hook[i].path = "timeout" =>
      /\ hook[i].out = ""
      /\ hook[i].code = 2
      /\ ~SignalsAllow(hook[i])

\* a hook timed out while the gateway held its request undecided
C22_TimedOutWhilePending ==
  \E i \in 1..Len(hook) :
    /\ hook[i].path = "timeout"
    /\ hook[i].posted
    /\ req[hook[i].requestId].state = "pending"

\* the hooks the CLI asked about a tool of the safe-tool list
SafeHooks ==
  {i \in 1..Len(hook) : hook[i].stdin = "object" /\ hook[i].tool \in SafeTools}

\* C23: a hook asked about a tool of the safe-tool list never waits for the
\* gateway, sends it no request, has no entry among the approvals, and when
\* it has exited it has signalled allow
C23_SafeToolBypass ==
  \A i \in SafeHooks :
    /\ hook[i].pc # "wait"
    /\ ~hook[i].posted
    /\ \A id \in 1..Len(req) : req[id].hook # i
    /\ hook[i].pc = "exited" => SignalsAllow(hook[i])

\* a safe-tool hook has exited while the gateway holds another hook's
\* request undecided
C23_SafePassedBesidePending ==
  \E i \in SafeHooks :
    /\ hook[i].pc = "exited"
    /\ pendingApprovals # {}
    /\ approvalCounter = 1

\* the request ids the decision function was called with for hook i's POST
AskedFor(i) == {id \in 1..Len(req) : req[id].hook = i}

\* what the gateway answers a hook's POST once its promise is settled, as
\* the hook reads it
AnswersOwnDecision ==
  \A i \in 1..Len(hook) :
    hook[i].path \in {"approved", "denied"} =>
      /\ AskedFor(i) = {hook[i].requestId}
      /\ hook[i].out = DecisionOf(req[hook[i].requestId].state = "approved")
      /\ req[hook[i].requestId].given \in {"none", hook[i].out}
      /\ req[hook[i].requestId].given = "none" => hook[i].out = "deny"

\* C24 as stated: every POST with a parseable body has the decision
\* function called exactly once and is answered with the decision given for
\* its own request id; a POST with a non-parseable body is answered
\* approved = false
C24_EveryParseableBodyAsked ==
  /\ \A i \in 1..Len(hook) : hook[i].posted => Cardinality(AskedFor(i)) = 1
  /\ \A p \in foreign : p.body # "garbage" => p.id # 0
  /\ \A p \in foreign : p.body = "garbage" => p.answer = "deny"
  /\ AnswersOwnDecision

\* C24: every POST whose body is a request with its tool input as a string
\* has the decision function called exactly once and is answered with the
\* decision given for its own request id; a POST whose body does not parse,
\* or parses to something formatDetail fails on, is answered approved =
\* false and the decision function is not called
C24_WellFormedBodyAsked ==
  /\ \A i \in 1..Len(hook) : hook[i].posted => Cardinality(AskedFor(i)) = 1
  /\ \A p \in foreign : p.id = 0 /\ p.answer = "deny"
  /\ Len(req) = Cardinality({i \in 1..Len(hook) : hook[i].posted})
  /\ AnswersOwnDecision

\* two requests were outstanding at once and their hooks have read
\* different decisions
C24_TwoDecisionsApart ==
  \E i, j \in 1..Len(hook) :
    /\ hook[i].path = "approved"
    /\ hook[j].path = "denied"
    /\ req[hook[j].requestId].given = "deny"
    /\ hook[j].requestId < hook[i].requestId

\* the hooks whose POST the gateway has registered
PostedHooks == {i \in 1..Len(hook) : hook[i].posted}

\* C25: request ids only grow and no two requests share one, also across a
\* cleanup and a later restart of the gateway; pendingApprovals holds
\* exactly the requests created and not yet resolved; no resolver is called
\* twice; an approval response for an unknown or resolved id changes nothing
C25_RequestIdsAndPending ==
  /\ [](/\ pendingApprovals =
             {id \in 1..Len(req) : req[id].state = "pending"}
        /\ \A i, j \in PostedHooks :
             i # j => hook[i].requestId # hook[j].requestId
        /\ \A i \in PostedHooks : hook[i].requestId \in 1..approvalCounter
        /\ \A id \in 1..Len(req) : req[id].calls <= 1)
  /\ [][/\ approvalCounter' >= approvalCounter
        /\ \A i \in PostedHooks : hook'[i].requestId = hook[i].requestId
        /\ \A i \in 1..Len(hook) :
             (~hook[i].posted /\ hook'[i].posted) =>
               /\ hook'[i].requestId > approvalCounter
               /\ \A j \in PostedHooks :
                    hook'[i].requestId > hook[j].requestId
        /\ gateVars' # gateVars =>
             \A id \in (1..(approvalCounter + 1)) \ pendingApprovals :
               \A approved \in BOOLEAN :
                 ~HandleApprovalResponseOf(id, approved)]_vars

\* a request got id 2 from a gateway restarted after a cleanup had denied
\* request 1, and request 2 is pending
C25_IdAfterRestart ==
  /\ Len(req) = 2
  /\ req[1].state = "denied"
  /\ req[1].given = "none"
  /\ approvalServer
  /\ pendingApprovals = {2}
  /\ \E i \in PostedHooks : hook[i].requestId = 2

(***************************************************************************)
(* The change tracker: what reject writes back, and what the diff marks.   *)
(***************************************************************************)
\* what readFileSync and split give snapshotFile for a content
LinesOf(c) == IF c = Missing THEN <<>> ELSE split(c)

\* what a file holds once the content a snapshot captured is written back
Captured(c) == IF c = Missing THEN <<>> ELSE c

\* C26: when rejectFile(p) writes p back, every snapshot of p having had its
\* result, p holds what the first snapshotFile call for p captured,
\* whatever the order in which the results came.
C26_RejectRestoresFirstSnapshot ==
  [][\A p \in Paths :
       ( /\ Len(trackedFiles') < Len(trackedFiles)
         /\ firstSnap[p] \notin {None, Mixed}
         /\ PendingFor(p) = {}
         /\ TrackedAt(p) # 0
         /\ TrackedAt(p) = findTrackedKey(normalizePath(p))
         /\ RejectFileOf(p, "ok") )
       => disk'[p] = Captured(firstSnap[p])]_vars

\* C27: as long as the entry of a path stays in trackedFiles, whatever
\* snapshotFile and onToolResult calls come, its beforeContent is the one
\* it was created with.
C27_OriginalContentFixed ==
  [][\A i \in 1..Len(trackedFiles) : \A j \in 1..Len(trackedFiles') :
       trackedFiles[i].key = trackedFiles'[j].key
         => trackedFiles'[j].beforeContent = trackedFiles[i].beforeContent]_vars

\* two edits of /f have had their results, the second one merged into the
\* entry the first one created, and the file differs from beforeContent
C27_KeptAcrossSecondEdit ==
  /\ Len(edits) = 2
  /\ \A i \in 1..Len(edits) : edits[i].st = "reported"
  /\ stdoutQ = <<>>
  /\ pendingEdits = {}
  /\ firstSnap[<<"/", "F">>] = None
  /\ Len(trackedFiles) = 1
  /\ trackedFiles[1].key = <<"/", "f">>
  /\ Len(trackedFiles[1].added) + Len(trackedFiles[1].modified) > 2
  /\ trackedFiles[1].beforeContent # disk[<<"/", "f">>]

\* C28: a step of the host in which fs.writeFileSync fails (rejectFile is
\* its only caller) shows the failure and changes nothing of the tracker's
\* state: every entry keeps its place, its ranges and its beforeContent, so
\* a later rejectFile of the same path finds the same content to write.
C28_FailedRevertKeepsState ==
  [][( /\ wrote' \in WriteOutcomes \ {"ok"}
       /\ edits' = edits
       /\ stdoutQ' = stdoutQ )
       => /\ shown' = "Failed to revert file"
          /\ trackedFiles' = trackedFiles
          /\ pendingEdits' = pendingEdits
          /\ \A p \in Paths :
               /\ findTrackedKey(normalizePath(p))'
                    = findTrackedKey(normalizePath(p))
               /\ disk'[p] # disk[p] => TrackedAt(p) # 0]_vars

\* a revert has just failed after truncating the file, and the entry with
\* the content to write back is still there
C28_FailedRevertKept ==
  /\ shown = "Failed to revert file"
  /\ \E i \in 1..Len(trackedFiles) :
       /\ disk[trackedFiles[i].key] = <<>>
       /\ trackedFiles[i].beforeContent # <<>>
       /\ findTrackedKey(normalizePath(trackedFiles[i].key)) = i

\* C29: whenever snapshotFile records the before-state of an invocation,
\* the CLI has not run that tool yet, or at least the lines recorded are
\* those the tool found in the file.
C29_SnapshotBeforeMutation ==
  [][\A e \in pendingEdits' \ pendingEdits :
       \/ edits[e.id].st = "announced"
       \/ e.beforeLines = LinesOf(edits[e.id].pre)]_vars

\* whether a snapshot stands for an empty before-state: no file, or a file
\* of length 0
EmptyBefore(beforeLines) == beforeLines = <<>> \/ beforeLines = << <<>> >>

Covers(ranges, line) ==
  \E k \in 1..Len(ranges) :
    ranges[k].startLine <= line /\ line <= ranges[k].endLine

\* C30: when the result of an invocation whose snapshot found no file or
\* an empty one creates the entry of a file that now has content, every
\* line of the file is in an added range and no range is modified.
C30_EmptyBeforeAllAdded ==
  [][\A e \in pendingEdits \ pendingEdits' :
       ( /\ EmptyBefore(e.beforeLines)
         /\ TrackedAt(e.filePath) = 0
         /\ disk[e.filePath] \notin {Missing, <<>>}
         /\ UserEvent )
       => \E k \in 1..Len(trackedFiles') :
            /\ trackedFiles'[k].key = e.filePath
            /\ trackedFiles'[k].modified = <<>>
            /\ \A line \in 0..(Len(split(disk[e.filePath])) - 1) :
                 Covers(trackedFiles'[k].added, line)]_vars

(***************************************************************************)
(* computeDiff against the common leading and trailing runs.               *)
(***************************************************************************)
Max(S) == CHOOSE x \in S : \A y \in S : y <= x

\* the length of the longest common leading run of two line sequences
LeadingRun(b, a) ==
  Max({k \in 0..Min(Len(b), Len(a)) : SubSeq(b, 1, k) = SubSeq(a, 1, k)})

\* the length of the longest common trailing run that leaves the leading
\* run alone in both sequences
TrailingRun(b, a) ==
  Max({k \in 0..(Min(Len(b), Len(a)) - LeadingRun(b, a)) :
         SubSeq(b, Len(b) - k + 1, Len(b)) = SubSeq(a, Len(a) - k + 1, Len(a))})

\* the lines (counted from 0) a sequence of ranges covers, and whether each
\* range is one line that ends where the line of the after content ends
LinesIn(ranges) ==
  UNION {ranges[k].startLine..ranges[k].endLine : k \in 1..Len(ranges)}

InsideAfter(ranges, a) ==
  \A k \in 1..Len(ranges) :
    /\ 0 <= ranges[k].startLine
    /\ ranges[k].startLine <= ranges[k].endLine
    /\ ranges[k].endLine < Len(a)
    /\ ranges[k].endChar = Len(a[ranges[k].endLine + 1])

\* what the claim says of one result of computeDiff
DiffAsClaimed(b, a, out) ==
  LET P == LeadingRun(b, a)
      S == TrailingRun(b, a)
      m == Min(Len(b) - P - S, Len(a) - P - S)
  IN /\ LinesIn(out.modified) = P..(P + m - 1)
     /\ LinesIn(out.added) = (P + m)..(Len(a) - S - 1)
     /\ Len(out.modified) = m
     /\ Len(out.added) = Len(a) - S - P - m
     /\ InsideAfter(out.modified, a)
     /\ InsideAfter(out.added, a)
     /\ b = a => out.modified = <<>> /\ out.added = <<>>

\* a is b with some lines taken out, in one place or in several
RECURSIVE IsSubsequence(_, _)
IsSubsequence(a, b) ==
  IF a = <<>> THEN TRUE
  ELSE IF b = <<>> THEN FALSE
  ELSE IF Head(a) = Head(b) THEN IsSubsequence(Tail(a), Tail(b))
                                   \/ IsSubsequence(a, Tail(b))
  ELSE IsSubsequence(a, Tail(b))

\* a is b with one run of lines taken out
OneRunDeleted(b, a) ==
  /\ Len(a) < Len(b)
  /\ \E i \in 0..Len(a) :
       /\ SubSeq(b, 1, i) = SubSeq(a, 1, i)
       /\ SubSeq(b, Len(b) - (Len(a) - i) + 1, Len(b)) = SubSeq(a, i + 1, Len(a))

NoRange(out) == out.modified = <<>> /\ out.added = <<>>

\* C31 as stated: for a non-empty before, computeDiff marks exactly the
\* after-lines between the common leading run and the common trailing run,
\* the first min(before middle, after middle) of them modified and the rest
\* added, every range inside the after content, and it returns no range
\* when before and after are equal or after is before with lines deleted.
C31_DiffOfTrimmedMiddle ==
  (dOut # <<>> /\ Len(dBefore) > 0)
    => /\ DiffAsClaimed(dBefore, dAfter, dOut[1])
       /\ (Len(dAfter) < Len(dBefore) /\ IsSubsequence(dAfter, dBefore))
            => NoRange(dOut[1])

\* C31, amended: the same, with no range promised only for equal sequences
\* and for an after that is before with one run of lines deleted.
C31_DiffOfTrimmedMiddleOneRun ==
  (dOut # <<>> /\ Len(dBefore) > 0)
    => /\ DiffAsClaimed(dBefore, dAfter, dOut[1])
       /\ OneRunDeleted(dBefore, dAfter) => NoRange(dOut[1])

\* a call that found a common leading run and a common trailing run and
\* marked lines of both kinds between them
C31_BothKindsBetweenRuns ==
  /\ dOut # <<>>
  /\ Len(dBefore) > 0
  /\ LeadingRun(dBefore, dAfter) > 0
  /\ TrailingRun(dBefore, dAfter) > 0
  /\ dOut[1].modified # <<>>
  /\ dOut[1].added # <<>>

\* whether no two ranges of a sequence span the same lines
NoSameSpan(ranges) ==
  \A k \in 1..Len(ranges) : \A l \in 1..Len(ranges) :
    (ranges[k].startLine = ranges[l].startLine
       /\ ranges[k].endLine = ranges[l].endLine) => k = l

\* C32: in every state no tracked file has two added ranges, or two
\* modified ranges, of the same line span; and handling a tool_result
\* again for a tool_use_id whose result was handled before leaves
\* trackedFiles and pendingEdits as they are.
C32_NoDuplicateRanges ==
  /\ [](\A k \in 1..Len(trackedFiles) :
          /\ NoSameSpan(trackedFiles[k].added)
          /\ NoSameSpan(trackedFiles[k].modified))
  /\ [][again' => /\ trackedFiles' = trackedFiles
                  /\ pendingEdits' = pendingEdits]_vars

\* a result was handled again while the entry of /f held the ranges that
\* two results had been merged into: with a beforeContent of one line 'a',
\* no single result marks line 0 as modified and lines 1 and 2 as added
C32_RepeatedOnMergedEntry ==
  /\ again
  /\ \E k \in 1..Len(trackedFiles) :
       /\ trackedFiles[k].beforeContent = <<"a">>
       /\ LinesIn(trackedFiles[k].modified) = {0}
       /\ LinesIn(trackedFiles[k].added) = {1, 2}

\* C37: no two entries of trackedFiles have the same normalized path, and a
\* step that is acceptFile(p) or rejectFile(p) changes no file but p and
\* leaves every entry whose key is not p in trackedFiles.
C37_OnlyOwnEntry ==
  /\ [](\A k \in 1..Len(trackedFiles) : \A l \in 1..Len(trackedFiles) :
          normalizePath(trackedFiles[k].key) = normalizePath(trackedFiles[l].key)
            => k = l)
  /\ [][\A p \in Paths :
          ( /\ edits' = edits
            /\ stdoutQ' = stdoutQ
            /\ \/ AcceptFile(p)
               \/ \E outcome \in WriteOutcomes : RejectFileOf(p, outcome) )
          => /\ \A q \in Paths \ {p} : disk'[q] = disk[q]
             /\ \A k \in 1..Len(trackedFiles) :
                  trackedFiles[k].key # p
                    => \E l \in 1..Len(trackedFiles') :
                         trackedFiles'[l] = trackedFiles[k]]_vars

(***************************************************************************)
(* Claims about the chat host and its supervisor.                          *)
(***************************************************************************)
\* the attached subprocess runs: it has neither exited nor been stopped
AttachedRuns ==
  proc # 0 /\ child[proc].st = "live" /\ ~child[proc].killed

\* the 'exit' callback of a subprocess other than the attached one runs
StaleExit ==
  \E p \in Children :
    p # proc /\ child[p].st = "live" /\ child'[p].st = "exited"

\* C35: in every state isRunning is true exactly when a subprocess is
\* attached that has neither exited nor been stopped, and the exit callback
\* of a subprocess that is not the attached one leaves the supervisor's
\* reference and its running flag as they were.
C35_RunningIffAttached ==
  /\ [](isRunning <=> AttachedRuns)
  /\ [][StaleExit => (proc' = proc /\ isRunning' = isRunning)]_vars

\* message n has been written to stdin or reported to the user
Settled(n) == userMsgs[n].st \in {"written", "reported", "failed"}

FlagsOfMode(m) ==
  CASE m = "askFirst" ->
         [permissionMode |-> "bypassPermissions", settings |-> TRUE]
    [] m = "autoEdit" ->
         [permissionMode |-> "bypassPermissions", settings |-> FALSE]
    [] m = "planFirst" -> [permissionMode |-> "plan", settings |-> FALSE]

\* a subprocess runs that has not been sent the termination signal
RunsUnsignalled(ch) ==
  \E p \in Children : ch[p].st = "live" /\ ~ch[p].killed

\* the 500 ms timer of message n runs out while the subprocess started for
\* n runs and has not been stopped
TimerOfFreshRuns(n) ==
  /\ userMsgs[n].st = "timer"
  /\ userMsgs'[n].st # "timer"
  /\ userMsgs[n].started # 0
  /\ child[userMsgs[n].started].st = "live"
  /\ ~child[userMsgs[n].started].killed

\* C33: (1) a change of the permission mode leaves no subprocess running
\* that has not been sent the termination signal; (2) the first message
\* sent after a mode change that stopped a subprocess is not written to a
\* subprocess that runs already: its handler starts one; (3) when the timer
\* of such a message runs out while the subprocess started for it runs, the
\* message is written to that subprocess, and the subprocess was started
\* with the flags of the mode that was configured when the message was sent.
C33_ModeChangeRestarts ==
  /\ [][mode' # mode => ~RunsUnsignalled(child')]_vars
  /\ [][\A n \in 1..MaxMsgs :
          (userMsgs[n].first /\ userMsgs[n].st = "none"
             /\ userMsgs'[n].st # "none")
          => userMsgs'[n].st \in {"setup", "timer"}]_vars
  /\ [][\A n \in 1..MaxMsgs :
          (userMsgs[n].first /\ TimerOfFreshRuns(n))
          => /\ userMsgs'[n].st = "written"
             /\ userMsgs'[n].to = userMsgs[n].started
             /\ att[userMsgs[n].started].args
                  = FlagsOfMode(userMsgs[n].sel)]_vars

\* C34: the broadcast state changes to 'waiting' only in a step that
\* handles a message of the user (its handler, or the start its handler
\* waited for), and to 'streaming' only from 'waiting' and while a
\* subprocess is attached; so after stopGeneration, newChat or a terminal
\* exit or error, each of which leaves 'idle' or 'error', the state is
\* 'waiting' or 'streaming' again only once a message has been sent.
C34_StateFlow ==
  [][/\ (uiState' = "waiting" /\ uiState # "waiting")
          => \E n \in 1..MaxMsgs :
               /\ userMsgs[n].st \in {"none", "setup"}
               /\ userMsgs'[n].st # userMsgs[n].st
     /\ (uiState' = "streaming" /\ uiState # "streaming")
          => (uiState = "waiting" /\ proc # 0)]_vars

\* every subprocess spawned so far has ended its output
AllOutputEnded ==
  \A p \in Children : child[p].st \notin {"live", "exited"}

\* C40: when every subprocess has exited and its output has ended, each
\* complete JSON record that was read from stdout and has not been emitted
\* as an event is emitted eventually, the last record of a subprocess that
\* no newline follows included.
C40_EveryRecordDelivered ==
  (AllOutputEnded /\ owed > 0) ~> (owed = 0)

(***************************************************************************)
(* Claims about stale subprocesses of ClaudeCodeManager.                   *)
(***************************************************************************)
\* child c was aborted, or the conversation was reset while it ran, and a
\* prompt has been sent since
StaleM(c) ==
  \/ mChild[c].killed /\ c < mSpawned
  \/ mChild[c].reset >= 0 /\ mChild[c].reset < mSpawned

\* C36: of a child that was aborted or reset and then followed by a new
\* prompt, (1) no event is in the text tracked for the running turn, (2) the
\* completion has appended no assistant message that holds content of
\* another child's turn, and (3) no callback sets the stored conversation
\* id to the child's session.
C36_StaleChildIsInert ==
  /\ [](\A i \in 1..Len(_currentAssistantText) :
          ~StaleM(_currentAssistantText[i][2]))
  /\ [](\A k \in 1..Len(_messages) :
          (_messages[k].role = "assistant" /\ StaleM(_messages[k].by))
          => \A i \in 1..Len(_messages[k].text) :
               _messages[k].text[i][2] = _messages[k].by)
  /\ [][\A c \in ChildrenM :
          (StaleM(c) /\ _conversationId' # _conversationId)
          => _conversationId' # c]_vars

(***************************************************************************)
(* Claims about the two transcripts at the end of a turn.                  *)
(***************************************************************************)
\* the tool blocks of a message's content: id, result and error of each
ToolFacts(content) ==
  {<<content[i].id, content[i].result, content[i].error>> :
     i \in {k \in 1..Len(content) : IsTool(content[k])}}

\* the content of the last assistant turn of the webview's transcript, none
\* when the prompt is its last message
LiveTurn(messages) ==
  IF messages # <<>> /\ messages[Len(messages)].role = "assistant"
  THEN messages[Len(messages)].content ELSE <<>>

\* C38: when a turn ends (the child's close has been handled and the
\* provider has finalized its assistant message), the message the provider
\* has stored for the turn and the last assistant turn of the webview's
\* transcript hold the same tool ids with the same result and error each,
\* and the same text.
C38_PersistedEqualsLive ==
  [][(sProc # "none" /\ sProc' = "none") =>
       LET live == LiveTurn(vMessages')
           kept == IF Len(tMessages') > Len(tMessages)
                   THEN tMessages'[Len(tMessages')].content ELSE <<>>
       IN  /\ ToolFacts(kept) = ToolFacts(live)
           /\ JoinTexts(kept) = JoinTexts(live)]_vars

====
